---- MODULE Spec2Model ----
(***************************************************************************)
(* A model of the Hexagony interpreter of this repository.  The repository *)
(* holds two versions of the interpreter: src/src/hexagony.c (the current  *)
(* one) and src/hexagony.c (an earlier one).  The variable version says     *)
(* which of the two is running; where the two differ the model has one     *)
(* definition per version (the earlier one's names end in _old).           *)
(***************************************************************************)
EXTENDS Integers, Sequences, FiniteSets, TLC

\* ------------------------------------------------------------------ bounds
\* number of interpreter ticks explored per run
MaxTicks == 7

\* --------------------------------------------------------------- enums
X == 0
Y == 1
Z == 2
LEFT == -1
RIGHT == 1
Axes == {X, Y, Z}
Directions == {"NW", "NE", "E", "SE", "SW", "W"}
Versions == {"new", "old"}

\* ------------------------------------------------- C integer arithmetic
INT_MAX == 2147483647
INT_MIN == -INT_MAX - 1

\* F applied to the value of v, with v evaluated once
Bind(v, F(_)) == CHOOSE r \in {F(x) : x \in {v}} : TRUE

labs(a) == IF a < 0 THEN -a ELSE a

\* C's / and % truncate toward zero
CDiv(a, b) ==
    IF (a >= 0) = (b > 0) THEN labs(a) \div labs(b) ELSE -(labs(a) \div labs(b))

CRem(a, b) == a - b * CDiv(a, b)

\* a + b in a 32-bit int, wrapping, without leaving the 32-bit range on the way
Add32(a, b) ==
    IF a >= 0 /\ b >= 0 /\ a > INT_MAX - b THEN (a + INT_MIN) + (b + INT_MIN)
    ELSE IF a < 0 /\ b < 0 /\ a < INT_MIN - b THEN (a - INT_MIN) + (b - INT_MIN)
    ELSE a + b

Neg32(a) == IF a = INT_MIN THEN INT_MIN ELSE -a

Sub32(a, b) == IF b = INT_MIN THEN Add32(Add32(a, INT_MAX), 1) ELSE Add32(a, -b)

RECURSIVE MulNat32(_, _)
\* a * n for a natural n, wrapping, by doubling
MulNat32(a, n) ==
    IF n = 0 THEN 0
    ELSE Bind(MulNat32(a, n \div 2),
              LAMBDA h : IF n % 2 = 1 THEN Add32(Add32(h, h), a) ELSE Add32(h, h))

Mul32(a, b) ==
    IF b >= 0 THEN MulNat32(a, b)
    ELSE IF b = INT_MIN THEN (IF a % 2 = 0 THEN 0 ELSE INT_MIN)
    ELSE Neg32(MulNat32(a, -b))

\* mathematical modulus
modulo(a, b) ==
    LET result == CRem(a, labs(b))
    IN  (IF result >= 0 THEN result ELSE result + b) * (IF b >= 0 THEN 1 ELSE -1)

\* ----------------------------------------------------------- hex grids
\* axial offsets for each hexagonal direction
direction_offset(d) ==
    CASE d = "NW" -> [dp |-> 0,  dq |-> -1]
      [] d = "NE" -> [dp |-> -1, dq |-> 0]
      [] d = "E"  -> [dp |-> -1, dq |-> 1]
      [] d = "SE" -> [dp |-> 0,  dq |-> 1]
      [] d = "SW" -> [dp |-> 1,  dq |-> 0]
      [] d = "W"  -> [dp |-> 1,  dq |-> -1]

\* the rings'th centered hexagonal number
HexSize(rings) == 3 * rings * (rings - 1) + 1

axial_to_index_lax(p, q, rings) ==
    LET x == p
        y == q
        z == -p - q
    IN  IF labs(x) + labs(y) + labs(z) > 2 * rings THEN -1
        ELSE CDiv(3 * rings * (rings - 1), 2)
             + y + (-z) * (rings * 2 - 1)
             + CDiv(z * (labs(z) + 1), 2)

axial_to_index_byp(p, q, rings) ==
    LET x == p
        y == q
        z == -p - q
    IN  IF labs(x) + labs(y) + labs(z) > 2 * (rings - 1) THEN -1
        ELSE CDiv(3 * rings * (rings - 1), 2)
             + x + (-z) * (rings * 2 - 1)
             + CDiv(z * (labs(z) + 1), 2)

\* index of axial p,q in the rows stored sequentially along the z axis
axial_to_index(p, q, rings) ==
    LET x == p
        y == q
        z == -p - q
    IN  IF labs(x) + labs(y) + labs(z) > 2 * (rings - 1) THEN -1
        ELSE CDiv(3 * rings * (rings - 1), 2)
             + y + (-z) * (rings * 2 - 1)
             + CDiv(z * (labs(z) + 1), 2)

\* the if statements of axial_to_mem_index whose condition holds, by sextant
SextantTests(p, q) ==
    LET x == p
        y == q
        z == -p - q
    IN  {k \in 0..5 : CASE k = 0 -> x <= 0 /\ y < 0
                         [] k = 1 -> y >= 0 /\ z > 0
                         [] k = 2 -> z <= 0 /\ x < 0
                         [] k = 3 -> x >= 0 /\ y > 0
                         [] k = 4 -> y <= 0 /\ z < 0
                         [] k = 5 -> z >= 0 /\ x > 0}

axial_to_mem_index_loose(p, q) ==
    LET x == p
        y == q
        z == -p - q
        ring == (labs(x) + labs(y) + labs(z)) \div 2
        i0 == IF ring > 0 THEN 3 * ring * (ring - 1) + 1 ELSE 0
        i1 == IF x <= 0 /\ y <= 0 THEN i0 + ring * 0 + labs(x) ELSE i0
        i2 == IF y >= 0 /\ z > 0 THEN i1 + ring * 1 + labs(y) ELSE i1
        i3 == IF z <= 0 /\ x < 0 THEN i2 + ring * 2 + labs(z) ELSE i2
        i4 == IF x >= 0 /\ y > 0 THEN i3 + ring * 3 + labs(x) ELSE i3
        i5 == IF y <= 0 /\ z < 0 THEN i4 + ring * 4 + labs(y) ELSE i4
        i6 == IF z >= 0 /\ x > 0 THEN i5 + ring * 5 + labs(z) ELSE i5
    IN  i6

\* radial index of axial p,q
axial_to_mem_index(p, q) ==
    LET x == p
        y == q
        z == -p - q
        ring == (labs(x) + labs(y) + labs(z)) \div 2
        i0 == IF ring > 0 THEN 3 * ring * (ring - 1) + 1 ELSE 0
        i1 == IF x <= 0 /\ y < 0 THEN i0 + ring * 0 + labs(x) ELSE i0
        i2 == IF y >= 0 /\ z > 0 THEN i1 + ring * 1 + labs(y) ELSE i1
        i3 == IF z <= 0 /\ x < 0 THEN i2 + ring * 2 + labs(z) ELSE i2
        i4 == IF x >= 0 /\ y > 0 THEN i3 + ring * 3 + labs(x) ELSE i3
        i5 == IF y <= 0 /\ z < 0 THEN i4 + ring * 4 + labs(y) ELSE i4
        i6 == IF z >= 0 /\ x > 0 THEN i5 + ring * 5 + labs(z) ELSE i5
    IN  i6

\* --------------------------------------------------------------- memory
\* The memory buffer is a function from cell indices 0..n-1 to cells; a cell
\* holds one edge per axis.  A record m = [memory, rings, gen] stands for the
\* pair (memory, memory_rings) every accessor is handed by reference; gen
\* counts the reallocations, so that a reference taken at an earlier gen is
\* one that a later realloc may have invalidated.
ZeroCell == [a \in Axes |-> 0]

realloc_memory_fresh(memory, old_rings, new_rings) ==
    LET new_size == 3 * new_rings * (new_rings - 1) + 1
    IN  [i \in 0..(new_size - 1) |-> ZeroCell]

\* memory is allocated sequentially and grows outwards in rings
realloc_memory(memory, old_rings, new_rings) ==
    LET old_size == 3 * old_rings * (old_rings - 1) + 1
        new_size == 3 * new_rings * (new_rings - 1) + 1
    IN  [i \in 0..(new_size - 1) |->
            IF i < old_size /\ i \in DOMAIN memory THEN memory[i] ELSE ZeroCell]

RECURSIVE GrowTo(_, _)
GrowTo_twice(m, index) ==
    IF index >= 3 * m.rings * (m.rings - 1) + 1
    THEN Bind([memory |-> realloc_memory(m.memory, m.rings, m.rings + 2),
               rings  |-> m.rings + 2,
               gen    |-> m.gen + 1],
              LAMBDA n : GrowTo(n, index))
    ELSE m

\* the while loop of get_memory_cell
GrowTo(m, index) ==
    IF index >= 3 * m.rings * (m.rings - 1) + 1
    THEN Bind([memory |-> realloc_memory(m.memory, m.rings, m.rings + 1),
               rings  |-> m.rings + 1,
               gen    |-> m.gen + 1],
              LAMBDA n : GrowTo(n, index))
    ELSE m

\* gets the memory cell at axial p,q and reallocates memory if the index is
\* out of range: the (memory, rings) left behind and the cell's index
get_memory_cell(p, q, m) ==
    Bind(axial_to_mem_index(p, q), LAMBDA index : [m |-> GrowTo(m, index), index |-> index])

\* a reference to one edge: the cell's index, the axis, and the gen of the
\* buffer it points into
Ref(c, axis) ==
    Bind(c, LAMBDA d : [m |-> d.m, index |-> d.index, axis |-> axis, gen |-> d.m.gen])

get_memory_edge_split(ptr, m) ==
    Ref(get_memory_cell(ptr.p, ptr.q, m),
        IF ptr.direction = "IN" THEN ptr.axis ELSE modulo(ptr.axis + 1, 3))

\* get a pointer to the memory edge pointed to by ptr
get_memory_edge(ptr, m) == Ref(get_memory_cell(ptr.p, ptr.q, m), ptr.axis)

Shift_up(xyz, inc, dec) ==
    [a \in Axes |-> xyz[a] + (IF a = inc THEN 1 ELSE 0)]

\* xyz with xyz[inc] incremented and xyz[dec] decremented
Shift(xyz, inc, dec) ==
    [a \in Axes |-> xyz[a] + (IF a = inc THEN 1 ELSE 0) - (IF a = dec THEN 1 ELSE 0)]

Cubic(ptr) == [a \in Axes |-> CASE a = X -> ptr.p [] a = Y -> ptr.q [] a = Z -> -ptr.p - ptr.q]

get_neighbor_near(ptr, neighbor, m) ==
    Bind(modulo(ptr.axis + neighbor, 3), LAMBDA neighbor_axis :
        Ref(get_memory_cell(ptr.p, ptr.q, m), neighbor_axis))

\* get a pointer to a neighbor of the edge pointed to by ptr
get_neighbor(ptr, neighbor, m) ==
    Bind(modulo(ptr.axis + neighbor, 3), LAMBDA neighbor_axis :
        Bind(IF ptr.direction = "OUT"
             THEN Shift(Cubic(ptr), ptr.axis, neighbor_axis)
             ELSE Cubic(ptr),
             LAMBDA xyz : Ref(get_memory_cell(xyz[X], xyz[Y], m), neighbor_axis)))

\* the xyz adjustment the earlier version spells out case by case
ShiftOld(xyz, axis, neighbor) ==
    CASE axis = X -> Shift(xyz, X, IF neighbor = LEFT THEN Z ELSE IF neighbor = RIGHT THEN Y ELSE 3)
      [] axis = Y -> Shift(xyz, Y, IF neighbor = LEFT THEN X ELSE IF neighbor = RIGHT THEN Z ELSE 3)
      [] axis = Z -> Shift(xyz, Z, IF neighbor = LEFT THEN Y ELSE IF neighbor = RIGHT THEN X ELSE 3)

get_neighbor_old(ptr, neighbor, m) ==
    Bind(IF ptr.direction = "OUT"
         THEN ShiftOld(Cubic(ptr), ptr.axis, neighbor)
         ELSE Cubic(ptr),
         LAMBDA xyz : Ref(get_memory_cell(xyz[X], xyz[Y], m), modulo(ptr.axis + neighbor, 3)))

move_mp_facing(ptr, neighbor) ==
    Bind(modulo(ptr.axis + neighbor, 3), LAMBDA neighbor_axis :
        Bind(IF ptr.direction = "OUT"
             THEN Shift(Cubic(ptr), ptr.axis, neighbor_axis)
             ELSE Cubic(ptr),
             LAMBDA xyz : [p |-> xyz[X], q |-> xyz[Y], axis |-> neighbor_axis,
                           direction |-> ptr.direction]))

\* move memory pointer to its left or right neighbor
move_mp(ptr, neighbor) ==
    Bind(modulo(ptr.axis + neighbor, 3), LAMBDA neighbor_axis :
        Bind(IF ptr.direction = "OUT"
             THEN Shift(Cubic(ptr), ptr.axis, neighbor_axis)
             ELSE Cubic(ptr),
             LAMBDA xyz : [p |-> xyz[X], q |-> xyz[Y], axis |-> neighbor_axis,
                           direction |-> IF ptr.direction = "OUT" THEN "IN" ELSE "OUT"]))

move_mp_old(ptr, neighbor) ==
    Bind(IF ptr.direction = "OUT"
         THEN ShiftOld(Cubic(ptr), ptr.axis, neighbor)
         ELSE Cubic(ptr),
         LAMBDA xyz : [p |-> xyz[X], q |-> xyz[Y], axis |-> modulo(ptr.axis + neighbor, 3),
                       direction |-> IF ptr.direction = "OUT" THEN "IN" ELSE "OUT"])

Reverse_kept(ptr) == ptr

\* MP.direction = MP.direction == IN ? OUT : IN
Reverse(ptr) == [ptr EXCEPT !.direction = IF ptr.direction = "IN" THEN "OUT" ELSE "IN"]

\* the value a reference reads from the buffer it was taken from
Deref(m, ref) == m.memory[ref.index][ref.axis]

Store_spill(m, ref, v) ==
    [m EXCEPT !.memory[ref.index] = [a \in Axes |-> IF a = ref.axis THEN v ELSE v + 1]]

\* the buffer after a store through a reference
Store(m, ref, v) == [m EXCEPT !.memory[ref.index][ref.axis] = v]

\* ------------------------------------------------------------ characters
\* Source characters are one-character strings; bytes of the standard streams
\* are their codes.
Upper == <<"A","B","C","D","E","F","G","H","I","J","K","L","M",
           "N","O","P","Q","R","S","T","U","V","W","X","Y","Z">>
Lower == <<"a","b","c","d","e","f","g","h","i","j","k","l","m",
           "n","o","p","q","r","s","t","u","v","w","x","y","z">>
DigitChars == <<"0","1","2","3","4","5","6","7","8","9">>

Range(seq) == {seq[i] : i \in DOMAIN seq}
IndexIn(seq, c) == CHOOSE i \in DOMAIN seq : seq[i] = c

Letters == Range(Upper) \cup Range(Lower)
Digits == Range(DigitChars)

isalpha(c) == c \in Range(Upper) \cup Range(Lower)
isdigit(c) == c \in Range(DigitChars)
isspace_never(c) == FALSE

isspace(c) == c \in {" ", "\t", "\n", "\r"}

\* the value of a letter as an int, and of a digit less '0'
Ord(c) == IF c \in Range(Upper) THEN 64 + IndexIn(Upper, c) ELSE 96 + IndexIn(Lower, c)
DigitValue(c) == IndexIn(DigitChars, c) - 1

\* the grave accent that marks a breakpoint (not a character the lexer admits
\* in a string, hence spelled out)
Backtick == "backtick"

\* ----------------------------------------------------------------- inputs
\* Every instruction of the language, with two letters and two digits.
Alphabet ==
    {"A", "z", "1", "9", ".", "@", ")", "(", "+", "-", "*", ":", "%", "~", ",", "?",
     ";", "!", "$", "/", "\\", "_", "|", "<", ">", "[", "]", "#", "{", "}", "\"",
     "'", "=", "^", "&"}

\* Source texts: every text of at most two instructions, and some longer ones.
LongSources ==
    { <<",", ";", "@">>,
      <<"3", "2", ";", "@">>,
      <<"1", "!", "@">>,
      <<" ", Backtick, "\n", ")", Backtick, " ", "@">>,
      <<"$", "@", ")", "!", "@">>,
      <<")", "}", ")", "}", "+", "!", "@", "&">>,
      <<"(", "{", "1", "\"", ":", "%", "#", "]">>,
      <<Backtick, "{", "{", "{", "{", "{", "{", "{", "^">>,
      <<"A", "'", "}", "=", ";", "@">>,
      <<"@", "\t", Backtick>>,
      <<"4", "8", "*", "@">>,
      <<Backtick, Backtick, ".", "\r", ".", ".", Backtick, "\n", ".", ".", ".", "@">>,
      <<"{", "{", "}", "A">> }

Sources ==
    {<<>>} \cup {<<a>> : a \in Alphabet} \cup {<<a, b>> : a \in Alphabet, b \in Alphabet}
    \cup LongSources

\* Contents of standard input: bytes.
Stdins == { <<>>, <<65>>, <<255>>, <<45, 52, 50, 113>>, <<115, 10, 99, 113>> }

\* ------------------------------------------------------------------ state
VARIABLES
    version,        \* which of the two source files is running
    source,         \* the bytes of the source file not read yet
    program_rings,  \* long program_rings
    program,        \* struct program_cell *program
    loader,         \* the locals of the loading block: debug_next, i, and the bytes
                    \* fgetc has returned so far (read)
    IPs,            \* struct IP IPs[6]
    IP_index,       \* int IP_index
    memory,         \* struct memory_cell *memory
    memory_rings,   \* long memory_rings
    MP,             \* struct memory_pointer MP
    force_debug,    \* bool force_debug
    instruction,    \* the index of the cell instruction points to, -1 before any
    stdin,          \* the bytes of standard input not read yet
    stdout,         \* the bytes written to standard output
    pc,             \* "load", "run", "done" (returned), "abort" (killed), "hang"
    exit_status,    \* "running", "EXIT_SUCCESS" (main returned) or "killed"
    ticks,          \* the number of loop iterations begun
    last,           \* the last loop iteration: what it ran and the state before it
    written         \* history: the letter last stored in an edge <<p, q, axis>>, for
                    \* the edges no other instruction has stored to since

vars == <<version, source, program_rings, program, loader, IPs, IP_index, memory,
          memory_rings, MP, force_debug, instruction, stdin, stdout, pc, exit_status,
          ticks, last, written>>

UninitCell == [value |-> "uninit", debug |-> FALSE]
NoIP == [p |-> 0, q |-> 0, direction |-> "E", ignore_next |-> FALSE]
NoTick == [kind |-> "none"]

\* main, up to the loading loop: argv[1] names a readable file
Init ==
    /\ version \in Versions
    /\ source \in Sources
    /\ stdin \in Stdins
    /\ program_rings = 1
    /\ program = [i \in 0..(HexSize(1) - 1) |-> UninitCell]
    /\ loader = [debug_next |-> FALSE, i |-> 0, read |-> <<>>]
    /\ IPs = [k \in 0..5 |-> NoIP]
    /\ IP_index = 0
    /\ memory = [i \in 0..0 |-> ZeroCell]
    /\ memory_rings = 1
    /\ MP = [p |-> 0, q |-> 0, axis |-> Z, direction |-> "OUT"]
    /\ force_debug = FALSE
    /\ instruction = -1
    /\ stdout = <<>>
    /\ pc = "load"
    /\ exit_status = "running"
    /\ ticks = 0
    /\ last = NoTick
    /\ written = <<>>

\* realloc(program, program_size * sizeof(struct program_cell))
GrowProgram(prog, size) ==
    [i \in 0..(size - 1) |-> IF i \in DOMAIN prog THEN prog[i] ELSE UninitCell]

\* one iteration of the loop over fgetc(source)
LoadByte ==
    /\ pc = "load"
    /\ source # <<>>
    /\ LET c == Head(source)
           program_size == HexSize(program_rings)
       IN  /\ source' = Tail(source)
           /\ IF c = Backtick
              THEN /\ loader' = [loader EXCEPT !.debug_next = TRUE, !.read = Append(@, c)]
                   /\ UNCHANGED <<program, program_rings>>
              ELSE IF ~isspace(c)
              THEN LET grow == loader.i >= program_size
                       rings == IF grow THEN program_rings + 1 ELSE program_rings
                       prog == IF grow THEN GrowProgram(program, HexSize(rings)) ELSE program
                   IN  /\ program_rings' = rings
                       /\ program' = [prog EXCEPT ![loader.i] =
                                         [value |-> c, debug |-> loader.debug_next]]
                       /\ loader' = [debug_next |-> FALSE, i |-> loader.i + 1,
                                      read |-> Append(loader.read, c)]
              ELSE /\ loader' = [loader EXCEPT !.read = Append(@, c)]
                   /\ UNCHANGED <<program, program_rings>>
    /\ UNCHANGED <<version, IPs, IP_index, memory, memory_rings, MP, force_debug,
                   instruction, stdin, stdout, pc, exit_status, ticks, last, written>>

InitialIPs_rotated(rings) ==
    [k \in 0..5 |->
        CASE k = 0 -> [p |-> 0,            q |-> -(rings - 1), direction |-> "E",  ignore_next |-> FALSE]
          [] k = 1 -> [p |-> -(rings - 1), q |-> 0,            direction |-> "SE", ignore_next |-> FALSE]
          [] k = 2 -> [p |-> -(rings - 1), q |-> rings - 1,    direction |-> "SW", ignore_next |-> FALSE]
          [] k = 3 -> [p |-> 0,            q |-> rings - 1,    direction |-> "W",  ignore_next |-> FALSE]
          [] k = 4 -> [p |-> rings - 1,    q |-> -(rings - 1), direction |-> "NW", ignore_next |-> FALSE]
          [] k = 5 -> [p |-> rings - 1,    q |-> 0,            direction |-> "NE", ignore_next |-> FALSE]]

\* struct IP IPs[6] = {...}
InitialIPs(rings) ==
    [k \in 0..5 |->
        CASE k = 0 -> [p |-> 0,            q |-> -(rings - 1), direction |-> "E",  ignore_next |-> FALSE]
          [] k = 1 -> [p |-> -(rings - 1), q |-> 0,            direction |-> "SE", ignore_next |-> FALSE]
          [] k = 2 -> [p |-> -(rings - 1), q |-> rings - 1,    direction |-> "SW", ignore_next |-> FALSE]
          [] k = 3 -> [p |-> 0,            q |-> rings - 1,    direction |-> "W",  ignore_next |-> FALSE]
          [] k = 4 -> [p |-> rings - 1,    q |-> 0,            direction |-> "NW", ignore_next |-> FALSE]
          [] k = 5 -> [p |-> rings - 1,    q |-> -(rings - 1), direction |-> "NE", ignore_next |-> FALSE]]

\* struct memory_pointer MP = {0, 0, Z, OUT}, and {0, 0, Z, IN} in the earlier version
InitialMP(v) ==
    [p |-> 0, q |-> 0, axis |-> Z, direction |-> IF v = "old" THEN "IN" ELSE "OUT"]

\* end of file: pad the program with no-ops, then the initialisers of main
Start ==
    /\ pc = "load"
    /\ source = <<>>
    /\ program' = [i \in DOMAIN program |->
                      IF i >= loader.i THEN [value |-> ".", debug |-> FALSE] ELSE program[i]]
    /\ loader' = [loader EXCEPT !.i = HexSize(program_rings)]
    /\ IPs' = InitialIPs(program_rings)
    /\ IP_index' = 0
    /\ memory_rings' = 1
    /\ memory' = [i \in 0..0 |-> ZeroCell]
    /\ MP' = InitialMP(version)
    /\ force_debug' = FALSE
    /\ pc' = "run"
    /\ UNCHANGED <<version, source, program_rings, instruction, stdin, stdout,
                   exit_status, ticks, last, written>>

\* ---------------------------------------------------------- instructions
\* A loop iteration is computed on a record s: the buffer s.m, the memory
\* pointer s.MP, the active IP s.IP, s.IP_index, the streams, and
\*   s.st     "ok", "done" (goto done / return), "abort" (the process is
\*            killed) or "hang" (the prompt loop never ends),
\*   s.cause  what killed the process: "arith" (division), "alloc" (realloc
\*            returned NULL), "stale" (a store or load through a freed
\*            block), "dangling" (main's pointer to a moved block),
\*   s.stale  whether a reference was used after a later call reallocated.
\* Each instruction maps s to the set of records the build can produce.

Neighbor(v, ptr, neighbor, m) ==
    IF v = "old" THEN get_neighbor_old(ptr, neighbor, m) ELSE get_neighbor(ptr, neighbor, m)

Move(v, ptr, neighbor) ==
    IF v = "old" THEN move_mp_old(ptr, neighbor) ELSE move_mp(ptr, neighbor)

\* the current edge's value: *get_memory_edge(MP, &memory, &memory_rings)
EdgeRef(s) == get_memory_edge(s.MP, s.m)
EdgeValue(s) == Bind(EdgeRef(s), LAMBDA r : Deref(r.m, r))

\* *get_memory_edge(MP, &memory, &memory_rings) = v
SetEdge(s, v) == Bind(EdgeRef(s), LAMBDA r : [s EXCEPT !.m = Store(r.m, r, v)])

Touch_dry(s) == s

\* a read of the current edge that stores nothing still reallocates
Touch(s) == [s EXCEPT !.m = EdgeRef(s).m]

Aborted(s, cause) == [s EXCEPT !.st = "abort", !.cause = cause]

\* isalpha: set current memory edge to value
SetLetter(c, s) == {SetEdge(s, Ord(c))}

Sign(e) == IF e < 0 THEN -1 ELSE 1

AppendDigit_sum(c, s) ==
    {SetEdge(s, Add32(e10, Mul32(Sign(e10), DigitValue(c)))) : e10 \in {EdgeValue(s)}}

\* isdigit: *edge *= 10; *edge += (*edge < 0 ? -1 : 1) * (instruction->value - '0')
AppendDigit(c, s) ==
    {SetEdge(s, Add32(e10, Mul32(Sign(e10), DigitValue(c)))) : e10 \in {Mul32(EdgeValue(s), 10)}}

\* the earlier version: *edge += (*edge < 0 ? -1 : 1) * instruction->value - '0'
AppendDigit_old(c, s) ==
    {SetEdge(s, Add32(e10, Sub32(Mul32(Sign(e10), 48 + DigitValue(c)), 48)))
        : e10 \in {Mul32(EdgeValue(s), 10)}}

Increment(s) == {SetEdge(s, Add32(EdgeValue(s), 1))}
Decrement(s) == {SetEdge(s, Sub32(EdgeValue(s), 1))}
Negate(s) == {SetEdge(s, Mul32(EdgeValue(s), -1))}

\* the three calls of  *get_memory_edge(..) = *get_neighbor(.. LEFT ..) op *get_neighbor(.. RIGHT ..)
\* are unsequenced: every order of them is one the compiler may choose
CallOrders ==
    { <<"E", "L", "R">>, <<"E", "R", "L">>, <<"L", "E", "R">>,
      <<"L", "R", "E">>, <<"R", "E", "L">>, <<"R", "L", "E">> }

Call(v, name, ptr, m) ==
    CASE name = "E" -> get_memory_edge(ptr, m)
      [] name = "L" -> Neighbor(v, ptr, LEFT, m)
      [] name = "R" -> Neighbor(v, ptr, RIGHT, m)

\* the references the three calls return when made in this order, and the buffer after
Calls(v, order, ptr, m) ==
    Bind(Call(v, order[1], ptr, m), LAMBDA r1 :
        Bind(Call(v, order[2], ptr, r1.m), LAMBDA r2 :
            Bind(Call(v, order[3], ptr, r2.m), LAMBDA r3 :
                [m |-> r3.m, ref |-> (order[1] :> r1) @@ (order[2] :> r2) @@ (order[3] :> r3)])))

\* values a read through an invalidated reference may return
StaleValues == {-1, 1}

\* what the operators leave in the current edge
Arith(c, l, r) ==
    CASE c = "+" -> {[st |-> "ok", v |-> Add32(l, r)]}
      [] c = "-" -> {[st |-> "ok", v |-> Sub32(l, r)]}
      [] c = "*" -> {[st |-> "ok", v |-> Mul32(l, r)]}
      [] c = ":" -> IF r = 0 THEN {[st |-> "abort", v |-> 0], [st |-> "ok", v |-> 0]}
                    ELSE IF l = INT_MIN /\ r = -1
                    THEN {[st |-> "abort", v |-> 0], [st |-> "ok", v |-> INT_MIN]}
                    ELSE {[st |-> "ok", v |-> CDiv(l, r)]}
      [] c = "%" -> IF r = 0 THEN {[st |-> "abort", v |-> 0], [st |-> "ok", v |-> l]}
                    ELSE IF l = INT_MIN /\ r = -1
                    THEN {[st |-> "abort", v |-> 0], [st |-> "ok", v |-> 0]}
                    ELSE {[st |-> "ok", v |-> CRem(l, r)]}

\* + - * : %  sets the current memory edge to left op right
Binary(v, c, s) ==
    UNION { LET stale(n) == k.ref[n].gen < k.m.gen
                ls == {Deref(k.m, k.ref["L"])} \cup (IF stale("L") THEN StaleValues ELSE {})
                rs == {Deref(k.m, k.ref["R"])} \cup (IF stale("R") THEN StaleValues ELSE {})
                used == stale("E") \/ stale("L") \/ stale("R")
            IN  UNION { UNION { { IF a.st = "abort" THEN Aborted(s, "arith")
                                  ELSE [s EXCEPT !.m = IF lost THEN k.m ELSE Store(k.m, k.ref["E"], a.v),
                                                 !.stale = used]
                                  : lost \in (IF stale("E") THEN {FALSE, TRUE} ELSE {FALSE}) }
                                : a \in Arith(c, l, r) }
                        : l \in ls, r \in rs }
                \cup (IF used THEN {Aborted(s, "stale")} ELSE {})
          : k \in {Calls(v, order, s.MP, s.m) : order \in CallOrders} }

\* & : int *edge = get_memory_edge(..); *edge = *get_neighbor(.., *edge <= 0 ? LEFT : RIGHT, ..)
Copy(v, s) ==
    UNION { UNION { LET stale == edge.gen < n.m.gen
                    IN  { [s EXCEPT !.m = Store(n.m, edge, Deref(n.m, n)), !.stale = stale] }
                        \cup (IF stale THEN {[s EXCEPT !.m = n.m, !.stale = TRUE], Aborted(s, "stale")}
                              ELSE {})
                    : n \in {Neighbor(v, s.MP, IF Deref(edge.m, edge) <= 0 THEN LEFT ELSE RIGHT,
                                      edge.m)} }
            : edge \in {EdgeRef(s)} }

ReadByte_zero(s) ==
    IF s.stdin = <<>> THEN {SetEdge(s, 0)}
    ELSE {[SetEdge(s, Head(s.stdin)) EXCEPT !.stdin = Tail(s.stdin)]}

\* , : getchar(), -1 at end of file
ReadByte(s) ==
    IF s.stdin = <<>> THEN {SetEdge(s, -1)}
    ELSE {[SetEdge(s, Head(s.stdin)) EXCEPT !.stdin = Tail(s.stdin)]}

IsDigitByte(b) == b >= 48 /\ b <= 57

RECURSIVE SkipToNumber(_)
\* do ch = getchar(); while (ch != EOF && !isdigit(ch) && ch != '+' && ch != '-');
\* followed by ungetc: the input from the first such byte on
SkipToNumber(in) ==
    IF in = <<>> \/ IsDigitByte(Head(in)) \/ Head(in) = 43 \/ Head(in) = 45 THEN in
    ELSE SkipToNumber(Tail(in))

RECURSIVE ScanDigits(_, _, _)
\* the digits scanf accepts: the value so far, whether any digit was read, the rest
ScanDigits(in, acc, any) ==
    IF in # <<>> /\ IsDigitByte(Head(in))
    THEN Bind(Add32(Mul32(acc, 10), Head(in) - 48), LAMBDA a : ScanDigits(Tail(in), a, TRUE))
    ELSE [v |-> acc, any |-> any, rest |-> in]

\* scanf("%d", edge) on input that starts with a digit or a sign
ScanInt(in) ==
    Bind(ScanDigits(IF Head(in) = 43 \/ Head(in) = 45 THEN Tail(in) ELSE in, 0, FALSE),
         LAMBDA d : [assigned |-> d.any,
                     v |-> IF Head(in) = 45 THEN Neg32(d.v) ELSE d.v,
                     rest |-> d.rest])

\* ? : read a signed decimal integer, 0 at end of file
ReadInt(s) ==
    UNION { IF in = <<>> THEN {[SetEdge(s, 0) EXCEPT !.stdin = <<>>]}
            ELSE {[SetEdge(s, IF n.assigned THEN n.v ELSE 0) EXCEPT !.stdin = n.rest]
                     : n \in {ScanInt(in)}}
            : in \in {SkipToNumber(s.stdin)} }

\* ; : printf("%c", (char)modulo(edge, 256))
WriteByte(s) == {[Touch(s) EXCEPT !.stdout = Append(s.stdout, modulo(EdgeValue(s), 256))]}

RECURSIVE DecimalNat(_)
DecimalNat(n) ==
    IF n < 10 THEN <<48 + n>> ELSE Append(DecimalNat(n \div 10), 48 + (n % 10))

\* the bytes of printf("%d", v)
Decimal(v) ==
    IF v >= 0 THEN DecimalNat(v)
    ELSE IF v = INT_MIN THEN <<45>> \o DecimalNat(INT_MAX \div 10) \o <<56>>
    ELSE <<45>> \o DecimalNat(-v)

\* ! : printf("%d", edge)
WriteInt(s) == {[Touch(s) EXCEPT !.stdout = s.stdout \o Decimal(EdgeValue(s))]}

\* $ : IP->ignore_next = true
Jump(s) == {[s EXCEPT !.IP.ignore_next = TRUE]}

Mirror_turned(c, d) ==
    CASE c = "/" ->
           (CASE d = "NW" -> "E"  [] d = "NE" -> "NE" [] d = "E" -> "NW"
              [] d = "SE" -> "W"  [] d = "SW" -> "SW" [] d = "W" -> "SE")
      [] c = "\\" ->
           (CASE d = "NW" -> "NW" [] d = "NE" -> "W"  [] d = "E" -> "SW"
              [] d = "SE" -> "SE" [] d = "SW" -> "E"  [] d = "W" -> "NE")
      [] c = "_" ->
           (CASE d = "NW" -> "SW" [] d = "NE" -> "SE" [] d = "E" -> "W"
              [] d = "SE" -> "NE" [] d = "SW" -> "NW" [] d = "W" -> "E")
      [] c = "|" ->
           (CASE d = "NW" -> "NE" [] d = "NE" -> "NW" [] d = "E" -> "W"
              [] d = "SE" -> "SW" [] d = "SW" -> "SE" [] d = "W" -> "E")

\* / \ _ | : the mirrors
Mirror(c, d) ==
    CASE c = "/" ->
           (CASE d = "NW" -> "E"  [] d = "NE" -> "NE" [] d = "E" -> "NW"
              [] d = "SE" -> "W"  [] d = "SW" -> "SW" [] d = "W" -> "SE")
      [] c = "\\" ->
           (CASE d = "NW" -> "NW" [] d = "NE" -> "W"  [] d = "E" -> "SW"
              [] d = "SE" -> "SE" [] d = "SW" -> "E"  [] d = "W" -> "NE")
      [] c = "_" ->
           (CASE d = "NW" -> "SW" [] d = "NE" -> "SE" [] d = "E" -> "E"
              [] d = "SE" -> "NE" [] d = "SW" -> "NW" [] d = "W" -> "W")
      [] c = "|" ->
           (CASE d = "NW" -> "NE" [] d = "NE" -> "NW" [] d = "E" -> "W"
              [] d = "SE" -> "SW" [] d = "SW" -> "SE" [] d = "W" -> "E")

Reflect(c, s) == {[s EXCEPT !.IP.direction = Mirror(c, s.IP.direction)]}

Branch_blind(c, s) ==
    LET d == s.IP.direction
    IN  IF c = "<"
        THEN CASE d = "NW" -> {[s EXCEPT !.IP.direction = "W"]}
               [] d = "NE" -> {[s EXCEPT !.IP.direction = "SW"]}
               [] d = "E"  -> {[Touch(s) EXCEPT !.IP.direction =
                                   IF EdgeValue(s) >= 0 THEN "SE" ELSE "NE"]}
               [] d = "SE" -> {[s EXCEPT !.IP.direction = "NW"]}
               [] d = "SW" -> {[s EXCEPT !.IP.direction = "W"]}
               [] d = "W"  -> {[s EXCEPT !.IP.direction = "E"]}
        ELSE CASE d = "NW" -> {[s EXCEPT !.IP.direction = "SE"]}
               [] d = "NE" -> {[s EXCEPT !.IP.direction = "E"]}
               [] d = "E"  -> {[s EXCEPT !.IP.direction = "W"]}
               [] d = "SE" -> {[s EXCEPT !.IP.direction = "E"]}
               [] d = "SW" -> {[s EXCEPT !.IP.direction = "NE"]}
               [] d = "W"  -> {[Touch(s) EXCEPT !.IP.direction =
                                   IF EdgeValue(s) >= 0 THEN "NW" ELSE "SW"]}

\* < > : mirrors, and branches on the current edge for one direction each
Branch(c, s) ==
    LET d == s.IP.direction
    IN  IF c = "<"
        THEN CASE d = "NW" -> {[s EXCEPT !.IP.direction = "W"]}
               [] d = "NE" -> {[s EXCEPT !.IP.direction = "SW"]}
               [] d = "E"  -> {[Touch(s) EXCEPT !.IP.direction =
                                   IF EdgeValue(s) > 0 THEN "SE" ELSE "NE"]}
               [] d = "SE" -> {[s EXCEPT !.IP.direction = "NW"]}
               [] d = "SW" -> {[s EXCEPT !.IP.direction = "W"]}
               [] d = "W"  -> {[s EXCEPT !.IP.direction = "E"]}
        ELSE CASE d = "NW" -> {[s EXCEPT !.IP.direction = "SE"]}
               [] d = "NE" -> {[s EXCEPT !.IP.direction = "E"]}
               [] d = "E"  -> {[s EXCEPT !.IP.direction = "W"]}
               [] d = "SE" -> {[s EXCEPT !.IP.direction = "E"]}
               [] d = "SW" -> {[s EXCEPT !.IP.direction = "NE"]}
               [] d = "W"  -> {[Touch(s) EXCEPT !.IP.direction =
                                   IF EdgeValue(s) > 0 THEN "NW" ELSE "SW"]}

\* [ : switches to the previous IP
PrevIP(s) == {[s EXCEPT !.IP_index = modulo(s.IP_index - 1, 6)]}
\* the earlier version: case '[': IP_index = modulo(IP_index + 1, 6)
PrevIP_old(s) == {[s EXCEPT !.IP_index = modulo(s.IP_index + 1, 6)]}

\* ] : switches to the next IP
NextIP(s) == {[s EXCEPT !.IP_index = modulo(s.IP_index + 1, 6)]}
\* the earlier version: case ']': IP_index = modulo(IP_index - 1, 6)
NextIP_old(s) == {[s EXCEPT !.IP_index = modulo(s.IP_index - 1, 6)]}

\* { } : move the MP to the left, the right neighbour
MoveMP(v, neighbor, s) == {[s EXCEPT !.MP = Move(v, s.MP, neighbor)]}

\* # : switches to the IP with index edge modulo 6
ChooseIP(s) == {[Touch(s) EXCEPT !.IP_index = modulo(EdgeValue(s), 6)]}
\* the earlier version has no break after case '#': control falls into case '{'
ChooseIP_old(s) == UNION {MoveMP("old", LEFT, t) : t \in ChooseIP(s)}

MoveBack_plain(v, neighbor, s) == {[s EXCEPT !.MP = Move(v, s.MP, neighbor)]}

\* " ' : = then } (or {) then =
MoveBack(v, neighbor, s) == {[s EXCEPT !.MP = Reverse(Move(v, Reverse(s.MP), neighbor))]}

\* = : reverses the direction of the MP
ReverseMP(s) == {[s EXCEPT !.MP = Reverse(s.MP)]}

\* ^ : move left if the current edge is zero or negative, right if positive
MoveBranch(v, s) ==
    {[Touch(s) EXCEPT !.MP = Move(v, s.MP, IF EdgeValue(s) <= 0 THEN LEFT ELSE RIGHT)]}

\* the if / else if / switch of the loop body
Dispatch(v, c, s) ==
    IF isalpha(c) THEN SetLetter(c, s)
    ELSE IF isdigit(c) THEN (IF v = "old" THEN AppendDigit_old(c, s) ELSE AppendDigit(c, s))
    ELSE CASE c = "." -> {s}
           [] c = "@" -> IF v = "old" THEN {s} ELSE {[s EXCEPT !.st = "done"]}
           [] c = ")" -> Increment(s)
           [] c = "(" -> Decrement(s)
           [] c \in {"+", "-", "*", ":", "%"} -> Binary(v, c, s)
           [] c = "~" -> Negate(s)
           [] c = "," -> ReadByte(s)
           [] c = "?" -> ReadInt(s)
           [] c = ";" -> WriteByte(s)
           [] c = "!" -> WriteInt(s)
           [] c = "$" -> Jump(s)
           [] c \in {"/", "\\", "_", "|"} -> Reflect(c, s)
           [] c \in {"<", ">"} -> Branch(c, s)
           [] c = "[" -> IF v = "old" THEN PrevIP_old(s) ELSE PrevIP(s)
           [] c = "]" -> IF v = "old" THEN NextIP_old(s) ELSE NextIP(s)
           [] c = "#" -> IF v = "old" THEN ChooseIP_old(s) ELSE ChooseIP(s)
           [] c = "{" -> MoveMP(v, LEFT, s)
           [] c = "}" -> MoveMP(v, RIGHT, s)
           [] c = "\"" -> MoveBack(v, RIGHT, s)
           [] c = "'" -> MoveBack(v, LEFT, s)
           [] c = "=" -> ReverseMP(s)
           [] c = "^" -> MoveBranch(v, s)
           [] c = "&" -> Copy(v, s)
           [] OTHER -> {s}

\* ------------------------------------------------------------ breakpoints
RECURSIVE Prompt(_)
\* prompt: switch (getchar()) { 's' .. 'c' .. 'q': goto done; default: goto prompt; }
\* At end of file getchar keeps returning EOF and the loop never ends.
Prompt(s) ==
    IF s.stdin = <<>> THEN [s EXCEPT !.st = "hang"]
    ELSE Bind([s EXCEPT !.stdin = Tail(s.stdin)], LAMBDA t :
            CASE Head(s.stdin) = 115 -> [t EXCEPT !.force_debug = TRUE]
              [] Head(s.stdin) = 99 -> [t EXCEPT !.force_debug = FALSE]
              [] Head(s.stdin) = 113 -> [t EXCEPT !.st = "done"]
              [] OTHER -> Prompt(t))

\* The pause on a breakpoint.  The text of the snapshot is not modelled.
\* print_memory is handed memory and rings by value and reallocates its own
\* copy when it shows a cell of the first unallocated ring (there is always
\* one within the rings it shows): if realloc moves the block, main is left
\* with a dangling pointer and the process is killed; if it does not, the
\* added cells lie beyond memory_rings and main never sees them.
Pause(s) ==
    {Prompt(t) : t \in {Touch(s)}} \cup {Aborted(s, "dangling")}

\* the earlier version: print_memory stays within the buffer; one getchar()
Pause_old(s) ==
    {[s EXCEPT !.stdin = IF s.stdin = <<>> THEN <<>> ELSE Tail(s.stdin)]}

Debug(v, cell, s) ==
    IF cell.debug \/ s.force_debug
    THEN (IF v = "old" THEN Pause_old(s) ELSE Pause(s))
    ELSE {s}

\* ---------------------------------------------------------------- advance
ReflectionAxes_blind(np, nq, nr, edge) ==
    IF np = 0 THEN {Z}
    ELSE IF nq = 0 THEN {X}
    ELSE IF nr = 0 THEN {Y}
    ELSE IF nq * nr > 0 THEN {X}
    ELSE IF nr * np > 0 THEN {Y}
    ELSE IF np * nq > 0 THEN {Z}
    ELSE {X, Y, Z, 3}

ReflectionAxes_five(np, nq, nr, edge) ==
    IF np = 0 THEN {IF edge > 0 THEN Y ELSE Z}
    ELSE IF nq = 0 THEN {IF edge > 0 THEN Z ELSE X}
    ELSE IF nr = 0 THEN {IF edge > 0 THEN X ELSE Y}
    ELSE IF nq * nr > 0 THEN {X}
    ELSE IF nr * np > 0 THEN {Y}
    ELSE {X, Y, Z, 3}

\* the if / else if chain that chooses the reflection; when no test holds,
\* reflection is read uninitialised: any axis, or no case of the switch
ReflectionAxes(np, nq, nr, edge) ==
    IF np = 0 THEN {IF edge > 0 THEN Y ELSE Z}
    ELSE IF nq = 0 THEN {IF edge > 0 THEN Z ELSE X}
    ELSE IF nr = 0 THEN {IF edge > 0 THEN X ELSE Y}
    ELSE IF nq * nr > 0 THEN {X}
    ELSE IF nr * np > 0 THEN {Y}
    ELSE IF np * nq > 0 THEN {Z}
    ELSE {X, Y, Z, 3}

Reflected_swapped(axis, p, q, np, nq) ==
    CASE axis = X -> [p |-> -p, q |-> p + q]
      [] axis = Y -> [p |-> p + q, q |-> -q]
      [] axis = Z -> [p |-> -p, q |-> -q]
      [] OTHER -> [p |-> np, q |-> nq]

\* switch (reflection)
Reflected(axis, p, q, np, nq) ==
    CASE axis = X -> [p |-> -p, q |-> p + q]
      [] axis = Y -> [p |-> p + q, q |-> -q]
      [] axis = Z -> [p |-> -q, q |-> -p]
      [] OTHER -> [p |-> np, q |-> nq]

Advance_late(rings, s) ==
    LET np == s.IP.p + direction_offset(s.IP.direction).dp
        nq == s.IP.q + direction_offset(s.IP.direction).dq
        nr == -np - nq
    IN  IF labs(np) + labs(nq) + labs(nr) > 2 * rings
        THEN UNION { { [t EXCEPT !.IP.p = Reflected(axis, s.IP.p, s.IP.q, np, nq).p,
                                 !.IP.q = Reflected(axis, s.IP.p, s.IP.q, np, nq).q]
                       : axis \in ReflectionAxes(np, nq, nr, EdgeValue(t)) }
                     : t \in {IF np = 0 \/ nq = 0 \/ nr = 0 THEN Touch(s) ELSE s} }
        ELSE {[s EXCEPT !.IP.p = np, !.IP.q = nq]}

\* the end of the loop body: step the IP, reflecting it at the boundary
Advance(rings, s) ==
    LET np == s.IP.p + direction_offset(s.IP.direction).dp
        nq == s.IP.q + direction_offset(s.IP.direction).dq
        nr == -np - nq
    IN  IF labs(np) + labs(nq) + labs(nr) >= 2 * rings
        THEN UNION { { [t EXCEPT !.IP.p = Reflected(axis, s.IP.p, s.IP.q, np, nq).p,
                                 !.IP.q = Reflected(axis, s.IP.p, s.IP.q, np, nq).q]
                       : axis \in ReflectionAxes(np, nq, nr, EdgeValue(t)) }
                     : t \in {IF np = 0 \/ nq = 0 \/ nr = 0 THEN Touch(s) ELSE s} }
        ELSE {[s EXCEPT !.IP.p = np, !.IP.q = nq]}

\* ------------------------------------------------------------ the main loop
\* the state a loop iteration starts from
Begin ==
    [m |-> [memory |-> memory, rings |-> memory_rings, gen |-> 0],
     MP |-> MP, IP |-> IPs[IP_index], IP_index |-> IP_index,
     stdin |-> stdin, stdout |-> stdout, force_debug |-> force_debug,
     st |-> "ok", cause |-> "none", stale |-> FALSE]

\* realloc returning NULL makes realloc_memory store through a null pointer:
\* wherever an iteration reallocates, it may instead be killed
OrKilled(base, S) ==
    S \cup {Aborted(base, "alloc") : t \in {t \in S : t.m.gen > base.m.gen}}

\* the index of the cell the active IP is on
FetchIndex == axial_to_index(IPs[IP_index].p, IPs[IP_index].q, program_rings)

Executions_early(cell) ==
    UNION { UNION { UNION { {[mid |-> t, end |-> u]
                              : u \in IF t.st = "ok"
                                      THEN {[t EXCEPT !.IP = w.IP]
                                             : w \in Advance(program_rings,
                                                             [t EXCEPT !.m = p.m, !.MP = p.MP])}
                                      ELSE {t} }
                            : t \in IF p.st = "ok"
                                    THEN OrKilled(p, Dispatch(version, cell.value, p))
                                    ELSE {p} }
                    : p \in OrKilled(b, Debug(version, cell, b)) }
            : b \in {Begin} }

\* the iterations the build can produce for a dispatched cell
Executions(cell) ==
    UNION { UNION { UNION { {[mid |-> t, end |-> u]
                              : u \in IF t.st = "ok" THEN OrKilled(t, Advance(program_rings, t))
                                      ELSE {t} }
                            : t \in IF p.st = "ok"
                                    THEN OrKilled(p, Dispatch(version, cell.value, p))
                                    ELSE {p} }
                    : p \in OrKilled(b, Debug(version, cell, b)) }
            : b \in {Begin} }

Skips_kept ==
    UNION { {[mid |-> t, end |-> u] : u \in OrKilled(t, Advance(program_rings, t))}
            : t \in {Begin} }

\* the iterations for an IP whose ignore_next is set
Skips ==
    UNION { {[mid |-> t, end |-> u] : u \in OrKilled(t, Advance(program_rings, t))}
            : t \in {[Begin EXCEPT !.IP.ignore_next = FALSE]} }

Snapshot ==
    [IPs |-> IPs, IP_index |-> IP_index, MP |-> MP, memory |-> memory,
     memory_rings |-> memory_rings, stdin |-> stdin, stdout |-> stdout,
     force_debug |-> force_debug]

Continues_always(v, fetched) == TRUE

\* the loop condition: while (true), and in the earlier version
\* do ... while (instruction->value != '@')
Continues(v, fetched) ==
    IF v = "old" THEN program[fetched].value # "@" ELSE TRUE

\* the instructions that store to the current edge
Stores == Letters \cup Digits \cup {")", "(", "+", "-", "*", ":", "%", "~", ",", "?", "&"}

\* the history of letters stored, after instruction op ran with the pointer at ptr
Record(op, ptr) ==
    LET slot == <<ptr.p, ptr.q, ptr.axis>>
    IN  IF op \in Letters
        THEN [k \in DOMAIN written \cup {slot} |-> IF k = slot THEN Ord(op) ELSE written[k]]
        ELSE IF op \in Stores
        THEN [k \in DOMAIN written \ {slot} |-> written[k]]
        ELSE written

Commit_selected(k, op, fetched, e) ==
    LET u == e.end
    IN  /\ last' = [kind |-> k, op |-> op, ip |-> IP_index, pre |-> Snapshot,
                    mid |-> e.mid,
                    st |-> u.st, cause |-> u.cause, stale |-> u.stale]
        /\ ticks' = ticks + 1
        /\ instruction' = fetched
        /\ IF u.st = "abort"
           THEN /\ pc' = "abort"
                /\ exit_status' = "killed"
                /\ UNCHANGED <<IPs, IP_index, memory, memory_rings, MP, force_debug,
                               stdin, stdout, written>>
           ELSE /\ pc' = IF u.st = "ok"
                         THEN (IF Continues(version, fetched) THEN "run" ELSE "done")
                         ELSE u.st
                /\ exit_status' = IF pc' = "done" THEN "EXIT_SUCCESS" ELSE exit_status
                /\ written' = IF k = "exec" /\ e.mid.st = "ok" THEN Record(op, MP) ELSE written
                /\ IPs' = [IPs EXCEPT ![u.IP_index] = u.IP]
                /\ IP_index' = u.IP_index
                /\ memory' = u.m.memory
                /\ memory_rings' = u.m.rings
                /\ MP' = u.MP
                /\ force_debug' = u.force_debug
                /\ stdin' = u.stdin
                /\ stdout' = u.stdout
        /\ UNCHANGED <<version, source, program_rings, program, loader>>

\* the variables after the iteration e of kind k on instruction op
Commit(k, op, fetched, e) ==
    LET u == e.end
    IN  /\ last' = [kind |-> k, op |-> op, ip |-> IP_index, pre |-> Snapshot,
                    mid |-> e.mid,
                    st |-> u.st, cause |-> u.cause, stale |-> u.stale]
        /\ ticks' = ticks + 1
        /\ instruction' = fetched
        /\ IF u.st = "abort"
           THEN /\ pc' = "abort"
                /\ exit_status' = "killed"
                /\ UNCHANGED <<IPs, IP_index, memory, memory_rings, MP, force_debug,
                               stdin, stdout, written>>
           ELSE /\ pc' = IF u.st = "ok"
                         THEN (IF Continues(version, fetched) THEN "run" ELSE "done")
                         ELSE u.st
                /\ exit_status' = IF pc' = "done" THEN "EXIT_SUCCESS" ELSE exit_status
                /\ written' = IF k = "exec" /\ e.mid.st = "ok" THEN Record(op, MP) ELSE written
                /\ IPs' = [IPs EXCEPT ![IP_index] = u.IP]
                /\ IP_index' = u.IP_index
                /\ memory' = u.m.memory
                /\ memory_rings' = u.m.rings
                /\ MP' = u.MP
                /\ force_debug' = u.force_debug
                /\ stdin' = u.stdin
                /\ stdout' = u.stdout
        /\ UNCHANGED <<version, source, program_rings, program, loader>>

\* a loop iteration that dispatches an instruction of the set ops
Exec(ops) ==
    /\ pc = "run"
    /\ ticks < MaxTicks
    /\ ~IPs[IP_index].ignore_next
    /\ FetchIndex # -1
    /\ \E i \in {FetchIndex} :
          /\ program[i].value \in ops
          /\ \E e \in Executions(program[i]) : Commit("exec", program[i].value, i, e)

\* a loop iteration of an IP whose ignore_next is set
Skip ==
    /\ pc = "run"
    /\ ticks < MaxTicks
    /\ IPs[IP_index].ignore_next
    /\ \E e \in Skips : Commit("skip", "", instruction, e)

ExecLetter == Exec(Letters)
ExecDigit == Exec(Digits)
ExecNop == Exec({"."})
ExecTerminate == Exec({"@"})
ExecIncrement == Exec({")"})
ExecDecrement == Exec({"("})
ExecBinary == Exec({"+", "-", "*", ":", "%"})
ExecNegate == Exec({"~"})
ExecReadByte == Exec({","})
ExecReadInt == Exec({"?"})
ExecWriteByte == Exec({";"})
ExecWriteInt == Exec({"!"})
ExecJump == Exec({"$"})
ExecMirror == Exec({"/", "\\", "_", "|"})
ExecBranch == Exec({"<", ">"})
ExecPrevIP == Exec({"["})
ExecNextIP == Exec({"]"})
ExecChooseIP == Exec({"#"})
ExecMoveLeft == Exec({"{"})
ExecMoveRight == Exec({"}"})
ExecMoveBackLeft == Exec({"\""})
ExecMoveBackRight == Exec({"'"})
ExecReverse == Exec({"="})
ExecMoveBranch == Exec({"^"})
ExecCopy == Exec({"&"})

Next ==
    \/ LoadByte
    \/ Start
    \/ Skip
    \/ ExecLetter
    \/ ExecDigit
    \/ ExecNop
    \/ ExecTerminate
    \/ ExecIncrement
    \/ ExecDecrement
    \/ ExecBinary
    \/ ExecNegate
    \/ ExecReadByte
    \/ ExecReadInt
    \/ ExecWriteByte
    \/ ExecWriteInt
    \/ ExecJump
    \/ ExecMirror
    \/ ExecBranch
    \/ ExecPrevIP
    \/ ExecNextIP
    \/ ExecChooseIP
    \/ ExecMoveLeft
    \/ ExecMoveRight
    \/ ExecMoveBackLeft
    \/ ExecMoveBackRight
    \/ ExecReverse
    \/ ExecMoveBranch
    \/ ExecCopy

Spec == Init /\ [][Next]_vars

\* ------------------------------------------------------- example programs
\* The interpreter run on three short programs, on every standard input: the
\* instructions below are the ones these programs hold.  The process is never
\* suspended: main runs its next step whenever it has one.
Examples == { <<",", ";", "@">>, <<"3", "2", ";", "@">>, <<"4", "8", "*", "@">> }

ExampleInit == Init /\ source \in Examples

ExampleNext ==
    \/ LoadByte
    \/ Start
    \/ ExecDigit
    \/ ExecBinary
    \/ ExecReadByte
    \/ ExecWriteByte
    \/ ExecTerminate

ExampleSpec == ExampleInit /\ [][ExampleNext]_vars /\ WF_vars(ExampleNext)

\* ------------------------------------------------- walks of the memory pointer
\* move_mp and the reversal of = applied to a memory pointer on its own: the
\* pointer starts anywhere within MaxCoord of the origin, on any axis, facing
\* either way, and makes up to MaxMoves moves; last keeps where it started
\* and the moves it made (LEFT, RIGHT, or 0 for a reversal).
MaxCoord == 1
MaxMoves == 6

Pointers ==
    [p : -MaxCoord..MaxCoord, q : -MaxCoord..MaxCoord, axis : Axes, direction : {"IN", "OUT"}]

WalkInit ==
    /\ pc = "walk"
    /\ version \in Versions
    /\ MP \in Pointers
    /\ last = [kind |-> "walk", start |-> MP, moves |-> <<>>]
    /\ source = <<>>
    /\ stdin = <<>>
    /\ stdout = <<>>
    /\ program_rings = 1
    /\ program = [i \in 0..0 |-> [value |-> ".", debug |-> FALSE]]
    /\ loader = [debug_next |-> FALSE, i |-> 1, read |-> <<>>]
    /\ IPs = InitialIPs(1)
    /\ IP_index = 0
    /\ memory = [i \in 0..0 |-> ZeroCell]
    /\ memory_rings = 1
    /\ force_debug = FALSE
    /\ instruction = -1
    /\ exit_status = "running"
    /\ ticks = 0
    /\ written = <<>>

Walk(move, ptr) ==
    /\ pc = "walk"
    /\ Len(last.moves) < MaxMoves
    /\ MP' = ptr
    /\ last' = [last EXCEPT !.moves = Append(@, move)]
    /\ UNCHANGED <<version, source, program_rings, program, loader, IPs, IP_index,
                   memory, memory_rings, force_debug, instruction, stdin, stdout,
                   pc, exit_status, ticks, written>>

\* move_mp(&MP, LEFT)
WalkLeft == Walk(LEFT, Move(version, MP, LEFT))

\* move_mp(&MP, RIGHT)
WalkRight == Walk(RIGHT, Move(version, MP, RIGHT))

\* MP.direction = MP.direction == IN ? OUT : IN
WalkReverse == Walk(0, Reverse(MP))

WalkNext == WalkLeft \/ WalkRight \/ WalkReverse

WalkSpec == WalkInit /\ [][WalkNext]_vars

\* ================================================================ claims
\* the value of the edge ptr designates in the buffer mem; an edge of a cell
\* not allocated yet reads 0 once it is allocated
EdgeOf(mem, ptr) ==
    IF axial_to_mem_index(ptr.p, ptr.q) \in DOMAIN mem
    THEN mem[axial_to_mem_index(ptr.p, ptr.q)][ptr.axis]
    ELSE 0

\* the last loop iteration ran to its end
Completed == last.kind \in {"exec", "skip"} /\ last.st = "ok"

\* the last loop iteration dispatched instruction c and the dispatch returned
Dispatched(ops) == last.kind = "exec" /\ last.op \in ops /\ last.mid.st = "ok"

\* ------------------------------------------------------------------- C1
\* the advance step as the claim states it: the position an IP at (p, q)
\* facing d is given when the current edge is edge and the program has R rings
C1_Offset(d) ==
    CASE d = "NW" -> <<0, -1>> [] d = "NE" -> <<-1, 0>> [] d = "E" -> <<-1, 1>>
      [] d = "SE" -> <<0, 1>>  [] d = "SW" -> <<1, 0>>  [] d = "W" -> <<1, -1>>

C1_Axis(np, nq, nr, edge) ==
    IF np = 0 THEN (IF edge > 0 THEN "Y" ELSE "Z")
    ELSE IF nq = 0 THEN (IF edge > 0 THEN "Z" ELSE "X")
    ELSE IF nr = 0 THEN (IF edge > 0 THEN "X" ELSE "Y")
    ELSE IF nq * nr > 0 THEN "X"
    ELSE IF nr * np > 0 THEN "Y"
    ELSE IF np * nq > 0 THEN "Z"
    ELSE "none"

C1_Crosses(p, q, d, R) ==
    LET np == p + C1_Offset(d)[1]
        nq == q + C1_Offset(d)[2]
    IN  labs(np) + labs(nq) + labs(-np - nq) >= 2 * R

C1_Expected(p, q, d, edge, R) ==
    LET np == p + C1_Offset(d)[1]
        nq == q + C1_Offset(d)[2]
        nr == -np - nq
        axis == C1_Axis(np, nq, nr, edge)
    IN  IF ~C1_Crosses(p, q, d, R) THEN <<np, nq>>
        ELSE CASE axis = "X" -> <<-p, p + q>>
               [] axis = "Y" -> <<p + q, -q>>
               [] axis = "Z" -> <<-q, -p>>
               [] OTHER -> <<"no axis">>

\* C1: every loop iteration that runs to its end leaves the IP that ran it at
\* the position the advance step of the claim gives (the tentative position
\* inside the hexagon, else the reflection chosen by the cascade from the
\* tentative position and the current edge after dispatch, applied to the
\* position before the step), and leaves its direction as dispatch left it.
C1_AdvanceStep ==
    Completed =>
        LET before == last.mid.IP
            edge == EdgeOf(last.mid.m.memory, last.mid.MP)
        IN  /\ <<IPs[last.ip].p, IPs[last.ip].q>> =
                   C1_Expected(before.p, before.q, before.direction, edge, program_rings)
            /\ IPs[last.ip].direction = before.direction
            /\ before.p = last.pre.IPs[last.ip].p
            /\ before.q = last.pre.IPs[last.ip].q

\* an IP walked off a corner with a positive current edge and was reflected
C1_Witness ==
    /\ Completed
    /\ program_rings >= 2
    /\ C1_Crosses(last.mid.IP.p, last.mid.IP.q, last.mid.IP.direction, program_rings)
    /\ last.mid.IP.p + C1_Offset(last.mid.IP.direction)[1] = 0
    /\ EdgeOf(last.mid.m.memory, last.mid.MP) > 0
    /\ <<IPs[last.ip].p, IPs[last.ip].q>> =
           <<last.mid.IP.p + last.mid.IP.q, -last.mid.IP.q>>

\* ------------------------------------------------------------------- C2
\* the loop is about to run its first iteration
AtStartup == pc = "run" /\ ticks = 0

\* C2: at startup, with r = program_rings - 1, IPs 0..5 are at (0,-r), (-r,0),
\* (-r,r), (0,r), (r,0), (r,-r) facing E, SE, SW, W, NW, NE, no skip flag is
\* set and the active index is 0.
C2_InitialIPs ==
    AtStartup =>
        LET r == program_rings - 1
            at(k, p, q, d) == IPs[k] = [p |-> p, q |-> q, direction |-> d, ignore_next |-> FALSE]
        IN  /\ at(0, 0, -r, "E")
            /\ at(1, -r, 0, "SE")
            /\ at(2, -r, r, "SW")
            /\ at(3, 0, r, "W")
            /\ at(4, r, 0, "NW")
            /\ at(5, r, -r, "NE")
            /\ IP_index = 0

\* startup of a program of three rings, whose corners are two steps from the centre
C2_Witness == AtStartup /\ program_rings = 3 /\ IPs[5].p = 2 /\ IPs[5].q = -2

\* ------------------------------------------------------------------- C3
\* C3: at startup the memory pointer is (0, 0), axis Z, orientation OUT, in
\* both versions of the source.
C3_InitialMP ==
    AtStartup => MP = [p |-> 0, q |-> 0, axis |-> Z, direction |-> "OUT"]

\* ------------------------------------------------------------------- C4
\* no cell of the program carries a breakpoint
NoBreakpoints == \A i \in DOMAIN program : ~program[i].debug

\* the loop has been left or the process is gone
RunEnded == pc \notin {"load", "run"}

\* the last loop iteration dispatched @
DispatchedTerminate == last.kind = "exec" /\ last.op = "@"

\* C4 as stated: with no breakpoints the run ends if and only if an iteration
\* dispatches @, and the process then exits with status zero; nothing else
\* ends the run.
C4_OnlyTerminateEnds ==
    NoBreakpoints =>
        /\ RunEnded <=> DispatchedTerminate
        /\ RunEnded => exit_status = "EXIT_SUCCESS"

\* C4 amended: with no breakpoints the loop is left if and only if the last
\* iteration dispatched @ and the process survived it, and the exit status is
\* then zero; the only other end of the run is the death of the process, in a
\* division or modulo (zero or overflowing quotient), in a reallocation that
\* fails, or in a store through a reference that a reallocation invalidated.
C4_TerminateOrKilled ==
    NoBreakpoints =>
        /\ pc \in {"load", "run", "done", "abort"}
        /\ pc = "done" <=> (DispatchedTerminate /\ last.st # "abort")
        /\ pc = "done" => exit_status = "EXIT_SUCCESS"
        /\ pc = "abort" =>
              /\ exit_status = "killed"
              /\ last.cause \in {"arith", "alloc", "stale"}
              /\ last.cause = "arith" => last.op \in {":", "%"}
              /\ last.cause = "stale" => last.op \in {"+", "-", "*", ":", "%", "&"}

\* a program without breakpoints ran some instructions and then left the loop on @
C4_Witness ==
    /\ NoBreakpoints
    /\ pc = "done"
    /\ DispatchedTerminate
    /\ ticks >= 3
    /\ stdout # <<>>

\* ------------------------------------------------------------------- C5
\* C5: a digit instruction d on a current edge e, when nothing overflows,
\* leaves the current edge at 10*e + d if e >= 0 and at 10*e - d if e < 0, in
\* both versions of the source.
C5_Digit ==
    Dispatched(Digits) =>
        LET e == EdgeOf(last.pre.memory, last.pre.MP)
            d == DigitValue(last.op)
        IN  labs(e) <= 100000000 =>
                /\ EdgeOf(last.mid.m.memory, last.mid.MP) =
                       (IF e >= 0 THEN 10 * e + d ELSE 10 * e - d)
                /\ labs(EdgeOf(last.mid.m.memory, last.mid.MP)) >= labs(e)

\* ------------------------------------------------------------------- C6
\* C6: [ makes the active index (active - 1) mod 6 and ] makes it
\* (active + 1) mod 6, in both versions of the source.
C6_SwitchIP ==
    Dispatched({"[", "]"}) =>
        last.mid.IP_index =
            (last.pre.IP_index + (IF last.op = "[" THEN -1 ELSE 1)) % 6

\* ------------------------------------------------------------------- C7
\* the buffers mem1 and mem2 hold the same value on every edge, an edge of a
\* cell not allocated reading 0
SameEdges(mem1, mem2) ==
    \A i \in DOMAIN mem1 \cup DOMAIN mem2 :
        (IF i \in DOMAIN mem1 THEN mem1[i] ELSE ZeroCell) =
        (IF i \in DOMAIN mem2 THEN mem2[i] ELSE ZeroCell)

\* C7: # makes the active index the current edge modulo 6, in 0..5 also for a
\* negative edge, and changes nothing else: the memory pointer, the edges and
\* the IP are as before, in both versions of the source.
C7_ChooseIP ==
    Dispatched({"#"}) =>
        /\ last.mid.IP_index = EdgeOf(last.pre.memory, last.pre.MP) % 6
        /\ last.mid.IP_index \in 0..5
        /\ last.mid.MP = last.pre.MP
        /\ SameEdges(last.mid.m.memory, last.pre.memory)
        /\ last.mid.IP = last.pre.IPs[last.ip]

\* ------------------------------------------------------------------- C8
\* the direction the claim's table gives for a branch c met facing d with the
\* current edge e
C8_Table(c, d, e) ==
    IF c = "<"
    THEN CASE d = "NW" -> "W" [] d = "NE" -> "SW" [] d = "SE" -> "NW"
           [] d = "SW" -> "W" [] d = "W" -> "E"
           [] d = "E" -> IF e > 0 THEN "SE" ELSE "NE"
    ELSE CASE d = "NW" -> "SE" [] d = "NE" -> "E" [] d = "E" -> "W"
           [] d = "SE" -> "E" [] d = "SW" -> "NE"
           [] d = "W" -> IF e > 0 THEN "NW" ELSE "SW"

\* C8: < and > give the active IP the direction of the table, which depends on
\* the current edge only at the branch direction (E for <, W for >, turning to
\* SE or NW when the edge is positive, to NE or SW otherwise), and change no
\* edge value, nor the memory pointer, nor the active index.
C8_Branch ==
    Dispatched({"<", ">"}) =>
        /\ last.mid.IP.direction =
               C8_Table(last.op, last.pre.IPs[last.ip].direction,
                        EdgeOf(last.pre.memory, last.pre.MP))
        /\ SameEdges(last.mid.m.memory, last.pre.memory)
        /\ last.mid.MP = last.pre.MP
        /\ last.mid.IP_index = last.pre.IP_index

\* < met facing E with a positive current edge turned the IP to SE
C8_Witness ==
    /\ Dispatched({"<"})
    /\ last.pre.IPs[last.ip].direction = "E"
    /\ EdgeOf(last.pre.memory, last.pre.MP) > 0
    /\ last.mid.IP.direction = "SE"

\* ------------------------------------------------------------------- C9
Mirrors == {"/", "\\", "_", "|"}

\* the direction the claim's table gives for a mirror c met facing d
C9_Table(c, d) ==
    LET row == CASE c = "/"  -> <<"E", "NE", "NW", "W", "SW", "SE">>
                 [] c = "\\" -> <<"NW", "W", "SW", "SE", "E", "NE">>
                 [] c = "_"  -> <<"SW", "SE", "E", "NE", "NW", "W">>
                 [] c = "|"  -> <<"NE", "NW", "W", "SW", "SE", "E">>
        col == CASE d = "NW" -> 1 [] d = "NE" -> 2 [] d = "E" -> 3
                 [] d = "SE" -> 4 [] d = "SW" -> 5 [] d = "W" -> 6
    IN  row[col]

\* C9: a mirror changes the direction of the active IP as the table says and
\* changes nothing else, and each mirror, applied twice, gives back the
\* direction it started from.
C9_Mirror ==
    /\ \A c \in Mirrors : \A d \in Directions :
          /\ Mirror(c, d) = C9_Table(c, d)
          /\ Mirror(c, Mirror(c, d)) = d
    /\ Dispatched(Mirrors) =>
          /\ last.mid.IP.direction = C9_Table(last.op, last.pre.IPs[last.ip].direction)
          /\ [last.mid.IP EXCEPT !.direction = last.pre.IPs[last.ip].direction] =
                 last.pre.IPs[last.ip]
          /\ last.mid.m.memory = last.pre.memory
          /\ last.mid.MP = last.pre.MP
          /\ last.mid.IP_index = last.pre.IP_index
          /\ last.mid.stdin = last.pre.stdin
          /\ last.mid.stdout = last.pre.stdout

\* after an earlier instruction, a mirror turned an IP to face E
C9_Witness ==
    /\ Dispatched(Mirrors)
    /\ Completed
    /\ ticks >= 2
    /\ last.mid.IP.direction # last.pre.IPs[last.ip].direction
    /\ last.mid.IP.direction = "E"

\* ------------------------------------------------------------------ C10
\* the value read through the view (slot, orientation) of an edge
ReadView(slot, orientation) ==
    LET r == get_memory_edge([p |-> slot[1], q |-> slot[2], axis |-> slot[3],
                              direction |-> orientation],
                             [memory |-> memory, rings |-> memory_rings, gen |-> 0])
    IN  Deref(r.m, r)

\* C10: an edge has one storage slot: a letter written through the current
\* edge is read back through both orientations of that edge for as long as no
\* instruction stores to the edge, wherever the memory pointer has moved in
\* between, and = leaves the value of the current edge, and every other edge,
\* as it was.
C10_OneSlot ==
    /\ \A slot \in DOMAIN written : \A o \in {"IN", "OUT"} :
          ReadView(slot, o) = written[slot]
    /\ Dispatched({"="}) =>
          /\ EdgeOf(last.mid.m.memory, last.mid.MP) = EdgeOf(last.pre.memory, last.pre.MP)
          /\ last.mid.m.memory = last.pre.memory
          /\ [last.mid.MP EXCEPT !.direction = last.pre.MP.direction] = last.pre.MP
          /\ last.mid.MP.direction # last.pre.MP.direction

\* a letter was written, the pointer went to other edges and came back, was
\* turned round by =, and the letter was printed from the other side
C10_Witness ==
    /\ Dispatched({";"})
    /\ Completed
    /\ ticks >= 5
    /\ <<MP.p, MP.q, MP.axis>> \in DOMAIN written
    /\ MP.direction # InitialMP(version).direction
    /\ stdout = <<65>>

\* ------------------------------------------------------------------ C11
\* the pointer has made exactly the moves of the sequence
Walked(moves) == pc = "walk" /\ last.moves = moves

C12_SixMovesReturn ==
    /\ (Walked(<<LEFT, LEFT, LEFT, LEFT, LEFT, LEFT>>)
          \/ Walked(<<RIGHT, RIGHT, RIGHT, RIGHT, RIGHT, RIGHT>>)) => MP = last.start
    /\ \A n \in 1..5 :
          (Walked([i \in 1..n |-> LEFT]) \/ Walked([i \in 1..n |-> RIGHT])) => MP # last.start

\* a pointer facing inwards on axis Y went six times to the right
C12_Witness ==
    /\ Walked(<<RIGHT, RIGHT, RIGHT, RIGHT, RIGHT, RIGHT>>)
    /\ last.start = [p |-> -1, q |-> 1, axis |-> Y, direction |-> "IN"]
    /\ MP = last.start

\* ------------------------------------------------------------------ C13
\* the source text as the file held it
SourceText == loader.read \o source

C13_Blank == {" ", "\t", "\n", "\r"}

\* the positions in text of the instruction bytes, in order
RECURSIVE C13_Positions(_, _)
C13_Positions(text, from) ==
    IF from > Len(text) THEN <<>>
    ELSE IF text[from] \in C13_Blank \cup {Backtick} THEN C13_Positions(text, from + 1)
    ELSE <<from>> \o C13_Positions(text, from + 1)

\* the smallest R >= from with 3R(R-1)+1 >= n
RECURSIVE C13_Rings(_, _)
C13_Rings(n, from) == IF 3 * from * (from - 1) + 1 >= n THEN from ELSE C13_Rings(n, from + 1)

\* C13: once the program is loaded, program_rings is the smallest R >= 1 whose
\* hexagon of 3R(R-1)+1 cells holds the instruction bytes of the source (the
\* bytes that are neither whitespace nor backtick); the program has that many
\* cells; cell i holds the i-th instruction byte, with its debug flag set if
\* and only if a backtick stands between the instruction byte before it and
\* it; the cells after the last instruction byte hold . with no debug flag.
C13_ProgramLoad ==
    pc \in {"run", "done", "abort", "hang"} =>
        LET text == SourceText
            pos == C13_Positions(text, 1)
            n == Len(pos)
            R == C13_Rings(n, 1)
        IN  /\ program_rings = R
            /\ DOMAIN program = 0..(3 * R * (R - 1))
            /\ \A i \in 0..(n - 1) :
                  /\ program[i].value = text[pos[i + 1]]
                  /\ program[i].debug <=>
                        \E k \in 1..Len(text) :
                           /\ text[k] = Backtick
                           /\ k < pos[i + 1]
                           /\ (i > 0 => k > pos[i])
            /\ \A i \in n..(3 * R * (R - 1)) : program[i] = [value |-> ".", debug |-> FALSE]

\* a program of seven instruction bytes among whitespace and backticks, the
\* last backtick a line before its instruction, loaded into two rings
C13_Witness ==
    /\ pc = "run"
    /\ Len(SourceText) = 12
    /\ program_rings = 2
    /\ program[0].debug /\ ~program[1].debug /\ program[3].debug
    /\ program[6].value = "@"

\* ------------------------------------------------------------------ C14
\* the byte the echo program is to write when standard input holds in
C14_Byte(in) == IF in = <<>> THEN 255 ELSE Head(in)

\* C14: the program ,;@ run on any standard input comes to its end through @
\* having written one byte and no more: the first byte of standard input, or
\* 255 when standard input is empty; until then it has written nothing.
C14_Echo ==
    \A in \in Stdins :
        (SourceText = <<",", ";", "@">> /\ stdin = in) =>
            /\ [](stdout \in {<<>>, <<C14_Byte(in)>>})
            /\ [](pc \in {"load", "run", "done"})
            /\ <>[](pc = "done" /\ exit_status = "EXIT_SUCCESS" /\ stdout = <<C14_Byte(in)>>)

\* the echo program met the end of standard input at once, wrote 255 and ended
C14_Witness ==
    /\ SourceText = <<",", ";", "@">>
    /\ pc = "done"
    /\ ticks = 3
    /\ last.pre.stdin = <<>>
    /\ stdout = <<255>>

\* ------------------------------------------------------------------ C15
\* the value of the current edge
CurrentEdge == EdgeOf(memory, MP)

\* C15 as stated: 48*@ and 32;@, run on an empty standard input, each end
\* with 32 in the current edge and one byte, a space, written.
C15_BothPrintSpace ==
    (SourceText \in {<<"4", "8", "*", "@">>, <<"3", "2", ";", "@">>}
        /\ stdin = <<>> /\ pc = "done") =>
            /\ stdout = <<32>>
            /\ CurrentEdge = 32

\* C15 amended: 32;@ run on an empty standard input puts 32 in the current
\* edge, writes one byte, a space, and ends.  48*@ is not its equivalent: it
\* never writes a byte; its two digits put 48 in the current edge, and * then
\* stores the product of the two neighbours, which are 0, so that the current
\* edge is 0 after * unless a reference used by * was invalidated on the way.
C15_OnlyOnePrintsSpace ==
    /\ (SourceText = <<"3", "2", ";", "@">> /\ stdin = <<>>) =>
          /\ [](stdout \in {<<>>, <<32>>})
          /\ [](pc \in {"load", "run", "done"})
          /\ <>[](pc = "done" /\ exit_status = "EXIT_SUCCESS" /\ stdout = <<32>>
                    /\ CurrentEdge = 32)
    /\ (SourceText = <<"4", "8", "*", "@">> /\ stdin = <<>>) =>
          /\ [](stdout = <<>>)
          /\ []((pc = "run" /\ ticks = 2) => CurrentEdge = 48)
          /\ []((Dispatched({"*"}) /\ Completed /\ ~last.mid.stale) => CurrentEdge = 0)

\* 32;@ ended with a space written, and so did not 48*@
C15_Witness ==
    /\ SourceText = <<"3", "2", ";", "@">>
    /\ stdin = <<>>
    /\ pc = "done"
    /\ stdout = <<32>>
    /\ CurrentEdge = 32

\* ------------------------------------------------------------------ C16
\* the value of the neighbour on the given side of the pointer ptr, in the
\* buffer mem of rings rings
NeighborValue(mem, rings, ptr, side) ==
    Bind(Neighbor(version, ptr, side, [memory |-> mem, rings |-> rings, gen |-> 0]),
         LAMBDA r : Deref(r.m, r))

\* the last iteration dispatched : or % with a right neighbour of 0
DividedByZero ==
    /\ last.kind = "exec"
    /\ last.op \in {":", "%"}
    /\ NeighborValue(last.pre.memory, last.pre.memory_rings, last.pre.MP, RIGHT) = 0

\* C16: when : or % is dispatched with a right neighbour of 0, either the
\* process dies and nothing is written, or a value is stored in the current
\* edge and every other edge, the two neighbours among them, keeps its value
\* (an edge of a cell allocated on the way reads 0 as before).
C16_DivisionByZero ==
    DividedByZero =>
        /\ last.mid.st \in {"ok", "abort"}
        /\ last.mid.st = "abort" =>
              /\ pc = "abort"
              /\ memory = last.pre.memory
              /\ stdout = last.pre.stdout
        /\ last.mid.st = "ok" =>
              /\ last.mid.MP = last.pre.MP
              /\ \A i \in DOMAIN last.mid.m.memory : \A a \in Axes :
                    (i # axial_to_mem_index(last.pre.MP.p, last.pre.MP.q) \/ a # last.pre.MP.axis)
                    => last.mid.m.memory[i][a] =
                          (IF i \in DOMAIN last.pre.memory THEN last.pre.memory[i][a] ELSE 0)
              /\ DOMAIN last.pre.memory \subseteq DOMAIN last.mid.m.memory

\* a division of a left neighbour that is not 0 by a right neighbour of 0
\* stored a value and went on
C16_Witness ==
    /\ DividedByZero
    /\ Completed
    /\ NeighborValue(last.pre.memory, last.pre.memory_rings, last.pre.MP, LEFT) # 0
    /\ NeighborValue(memory, memory_rings, last.pre.MP, LEFT) # 0

\* ------------------------------------------------------------------ C17
\* realloc returned NULL in the last iteration
AllocationFailed == pc = "abort" /\ last.cause = "alloc"

\* C17: when the allocation of a new ring of memory fails, the interpreter
\* ends the run itself, with a diagnostic and a failure status, as it does for
\* a source file it cannot open; it is not killed for touching memory it does
\* not have.
C17_AllocationFailureDiagnosed ==
    AllocationFailed => exit_status = "EXIT_FAILURE"

\* ------------------------------------------------------------------ C18
\* C18: no instruction reads or writes through a reference to an edge that
\* it obtained before a reallocation of the memory buffer: within one
\* instruction every growth of memory comes before the first reference is
\* taken.
C18_NoReferenceAcrossGrowth ==
    last.kind = "exec" => (~last.mid.stale /\ last.mid.cause # "stale")

\* ------------------------------------------------------------------ C19
\* the largest program, in rings, for which the advance step is checked from
\* every position
MaxRings == 4

\* twice the ring of the cell (p, q)
Norm(p, q) == labs(p) + labs(q) + labs(p + q)

\* the IPs have been initialised
Running == pc \in {"run", "done", "abort", "hang"}

\* the cells of a program of R rings
Cells(R) == {c \in (-(R - 1)..(R - 1)) \X (-(R - 1)..(R - 1)) : Norm(c[1], c[2]) <= 2 * (R - 1)}

\* from every cell of every program of up to MaxRings rings, facing any
\* direction, with a current edge of any sign, the advance step leaves the IP
\* on a cell of the program, and on the outer ring when it left the hexagon
AdvanceStaysInside ==
    \A R \in 1..MaxRings : \A c \in Cells(R) : \A d \in Directions : \A edge \in {-1, 0, 1} :
        LET np == c[1] + direction_offset(d).dp
            nq == c[2] + direction_offset(d).dq
            nr == -np - nq
        IN  IF labs(np) + labs(nq) + labs(nr) >= 2 * R
            THEN \A axis \in ReflectionAxes(np, nq, nr, edge) :
                    Norm(Reflected(axis, c[1], c[2], np, nq).p,
                         Reflected(axis, c[1], c[2], np, nq).q) = 2 * (R - 1)
            ELSE <<np, nq>> \in Cells(R)

\* every cell of a program of up to MaxRings rings has an index of its own
\* among the cells of the program
IndexWithinProgram ==
    \A R \in 1..MaxRings :
        /\ \A c \in Cells(R) : axial_to_index(c[1], c[2], R) \in 0..(3 * R * (R - 1))
        /\ \A c1 \in Cells(R) : \A c2 \in Cells(R) :
              axial_to_index(c1[1], c1[2], R) = axial_to_index(c2[1], c2[2], R) => c1 = c2

\* C19: once the IPs are initialised, each of the six is on a cell of the
\* program, |p| + |q| + |p + q| <= 2 (program_rings - 1), and its fetch index
\* is never -1 and lies within the program; an IP that stepped off the
\* hexagon is put on the outer ring.
C19_InsideProgram ==
    /\ AdvanceStaysInside
    /\ IndexWithinProgram
    /\ Running =>
          \A k \in 0..5 :
              /\ Norm(IPs[k].p, IPs[k].q) <= 2 * (program_rings - 1)
              /\ axial_to_index(IPs[k].p, IPs[k].q, program_rings) # -1
              /\ axial_to_index(IPs[k].p, IPs[k].q, program_rings) \in DOMAIN program
    /\ (Completed /\ C1_Crosses(last.mid.IP.p, last.mid.IP.q, last.mid.IP.direction,
                               program_rings)) =>
          Norm(IPs[last.ip].p, IPs[last.ip].q) = 2 * (program_rings - 1)

\* in a program of three rings an IP stepped off the hexagon and was put on
\* another cell of the outer ring
C19_Witness ==
    /\ Completed
    /\ program_rings = 3
    /\ C1_Crosses(last.mid.IP.p, last.mid.IP.q, last.mid.IP.direction, program_rings)
    /\ Norm(IPs[last.ip].p, IPs[last.ip].q) = 4
    /\ <<IPs[last.ip].p, IPs[last.ip].q>> # <<last.mid.IP.p, last.mid.IP.q>>

\* ------------------------------------------------------------------ C20
\* C20: a loop iteration changes the position, the direction and the skip
\* flag of no IP but the one that was active when it began; when [ ] or #
\* selects another IP, the advance step of that iteration still moves the IP
\* that ran the instruction, and the IP selected is left as it was.
C20_OnlyActiveIP ==
    last.kind \in {"exec", "skip"} =>
        /\ last.ip = last.pre.IP_index
        /\ \A k \in 0..5 : k # last.ip => IPs[k] = last.pre.IPs[k]
        /\ (Dispatched({"[", "]", "#"}) /\ Completed) =>
              /\ <<IPs[last.ip].p, IPs[last.ip].q>> =
                     C1_Expected(last.pre.IPs[last.ip].p, last.pre.IPs[last.ip].q,
                                 last.pre.IPs[last.ip].direction,
                                 EdgeOf(last.mid.m.memory, last.mid.MP), program_rings)
              /\ IP_index = last.mid.IP_index

\* in a program of two rings [ or ] or # selected another IP, and the IP
\* that ran it went one cell on
C20_Witness ==
    /\ Dispatched({"[", "]", "#"})
    /\ Completed
    /\ program_rings = 2
    /\ IP_index # last.ip
    /\ <<IPs[last.ip].p, IPs[last.ip].q>> # <<last.pre.IPs[last.ip].p, last.pre.IPs[last.ip].q>>
    /\ IPs[IP_index] = last.pre.IPs[IP_index]

\* ------------------------------------------------------------------ C21
\* the cell the IP that ran the last iteration stood on when it began
CellUnder == program[axial_to_index(last.pre.IPs[last.ip].p, last.pre.IPs[last.ip].q,
                                    program_rings)]

\* C21: after an IP dispatches $ its skip flag is set and it is still the
\* active IP, so the next iteration is its own; an iteration that finds the
\* flag set dispatches nothing (no edge is written, the memory pointer, the
\* streams, the direction and the active index stay as they were, and the
\* loop is not left even on @), clears the flag and advances the IP one step,
\* reflecting it at the boundary; an iteration dispatches only when the flag
\* is clear, and no IP but the active one ever has the flag set.
C21_SkipTick ==
    /\ (Dispatched({"$"}) /\ Completed) =>
          /\ IPs[last.ip].ignore_next
          /\ IP_index = last.ip
          /\ pc = "run"
    /\ last.kind = "exec" => ~last.pre.IPs[last.ip].ignore_next
    /\ last.kind = "skip" =>
          /\ last.pre.IPs[last.ip].ignore_next
          /\ last.ip = last.pre.IP_index
          /\ last.mid = [m |-> [memory |-> last.pre.memory, rings |-> last.pre.memory_rings,
                                gen |-> 0],
                         MP |-> last.pre.MP,
                         IP |-> [last.pre.IPs[last.ip] EXCEPT !.ignore_next = FALSE],
                         IP_index |-> last.pre.IP_index,
                         stdin |-> last.pre.stdin, stdout |-> last.pre.stdout,
                         force_debug |-> last.pre.force_debug,
                         st |-> "ok", cause |-> "none", stale |-> FALSE]
          /\ pc \in {"run", "abort"}
          /\ pc = "abort" => last.cause = "alloc"
          /\ Completed =>
                /\ pc = "run"
                /\ ~IPs[last.ip].ignore_next
                /\ IPs[last.ip].direction = last.pre.IPs[last.ip].direction
                /\ <<IPs[last.ip].p, IPs[last.ip].q>> =
                       C1_Expected(last.pre.IPs[last.ip].p, last.pre.IPs[last.ip].q,
                                   last.pre.IPs[last.ip].direction,
                                   EdgeOf(last.pre.memory, last.pre.MP), program_rings)
                /\ SameEdges(memory, last.pre.memory)
                /\ MP = last.pre.MP
                /\ stdin = last.pre.stdin
                /\ stdout = last.pre.stdout
                /\ IP_index = last.pre.IP_index
                /\ force_debug = last.pre.force_debug
    /\ Running => \A k \in 0..5 : k # IP_index => ~IPs[k].ignore_next

\* an IP that had dispatched $ passed over a cell holding @ and the run went on
C21_Witness ==
    /\ last.kind = "skip"
    /\ Completed
    /\ CellUnder.value = "@"
    /\ pc = "run"
    /\ <<IPs[last.ip].p, IPs[last.ip].q>> # <<last.pre.IPs[last.ip].p, last.pre.IPs[last.ip].q>>

\* ------------------------------------------------------------------ C22
\* where the advance step puts the IP of the last iteration if the reflection
\* axis is chosen by the edge the pointer mp designates in the memory mem
LandsBy(mem, mp) ==
    C1_Expected(last.mid.IP.p, last.mid.IP.q, last.mid.IP.direction,
                EdgeOf(mem, mp), program_rings)

\* the IP of the last iteration stepped across the boundary
Crossed ==
    /\ Completed
    /\ C1_Crosses(last.mid.IP.p, last.mid.IP.q, last.mid.IP.direction, program_rings)

\* C22: when an IP crosses the boundary, the reflection is the one chosen by
\* the value of the edge the memory pointer designates once the iteration's
\* dispatch is over (after its write and after its pointer move or turn), and
\* where that differs from the reflection the edge current before dispatch
\* would choose, the IP does not land where the earlier edge would put it.
C22_EdgeAfterDispatch ==
    Crossed =>
        /\ <<IPs[last.ip].p, IPs[last.ip].q>> = LandsBy(last.mid.m.memory, last.mid.MP)
        /\ LandsBy(last.pre.memory, last.pre.MP) # LandsBy(last.mid.m.memory, last.mid.MP)
              => <<IPs[last.ip].p, IPs[last.ip].q>> # LandsBy(last.pre.memory, last.pre.MP)

\* a dispatch moved the memory pointer to an edge of the other sign class and
\* the IP then left through a corner, where the sign decides the reflection
C22_Witness ==
    /\ Crossed
    /\ last.kind = "exec"
    /\ last.mid.MP # last.pre.MP
    /\ (EdgeOf(last.pre.memory, last.pre.MP) > 0) # (EdgeOf(last.mid.m.memory, last.mid.MP) > 0)
    /\ LandsBy(last.pre.memory, last.pre.MP) # LandsBy(last.mid.m.memory, last.mid.MP)
    /\ <<IPs[last.ip].p, IPs[last.ip].q>> = LandsBy(last.mid.m.memory, last.mid.MP)

\* ------------------------------------------------------------------ C23
\* the advance step of the last iteration read the current edge: the IP left
\* the hexagon and its tentative position has a zero cubic coordinate
ReadEdgeToReflect ==
    /\ Crossed
    /\ \/ last.mid.IP.p + C1_Offset(last.mid.IP.direction)[1] = 0
       \/ last.mid.IP.q + C1_Offset(last.mid.IP.direction)[2] = 0
       \/ last.mid.IP.p + C1_Offset(last.mid.IP.direction)[1]
              + last.mid.IP.q + C1_Offset(last.mid.IP.direction)[2] = 0

\* the memory pointer was left by dispatch on a cell the buffer does not hold
PointsBeyondBuffer ==
    axial_to_mem_index(last.mid.MP.p, last.mid.MP.q) >= HexSize(last.mid.m.rings)

\* C23 as stated: the advance step of an iteration leaves memory_rings and
\* the buffer as dispatch left them.
C23_NoGrowthInAdvance ==
    Completed =>
        /\ memory_rings = last.mid.m.rings
        /\ memory = last.mid.m.memory

\* C23, amended: the advance step writes no output, consumes no input, moves
\* no memory pointer and changes no edge value, but it does grow memory,
\* exactly when it reads the current edge to choose a reflection (the IP
\* leaves the hexagon with a zero tentative coordinate) while the memory
\* pointer designates a cell beyond the buffer; memory then grows just far
\* enough to hold that cell, and the cells added read 0.
C23_GrowthOnlyForReflection ==
    Completed =>
        /\ stdout = last.mid.stdout
        /\ stdin = last.mid.stdin
        /\ MP = last.mid.MP
        /\ SameEdges(memory, last.mid.m.memory)
        /\ memory_rings >= last.mid.m.rings
        /\ DOMAIN memory = 0..(HexSize(memory_rings) - 1)
        /\ memory_rings # last.mid.m.rings <=> (ReadEdgeToReflect /\ PointsBeyondBuffer)
        /\ memory_rings # last.mid.m.rings =>
              /\ axial_to_mem_index(MP.p, MP.q) < HexSize(memory_rings)
              /\ axial_to_mem_index(MP.p, MP.q) >= HexSize(memory_rings - 1)

\* the advance step of an iteration grew memory
C23_Witness ==
    /\ Completed
    /\ last.kind = "exec"
    /\ ReadEdgeToReflect
    /\ memory_rings > last.mid.m.rings
    /\ last.mid.m.rings = last.pre.memory_rings

\* ------------------------------------------------------------------ C24
\* the cascade assigns reflection: it yields one axis, not the outcomes of an
\* uninitialised read
Assigns(np, nq, nr, edge) ==
    /\ Cardinality(ReflectionAxes(np, nq, nr, edge)) = 1
    /\ ReflectionAxes(np, nq, nr, edge) \subseteq Axes

\* for every program of up to MaxRings rings, every cell, every direction and
\* a current edge of any sign: if the step leaves the hexagon, a test holds
CascadeAssigns ==
    \A R \in 1..MaxRings : \A c \in Cells(R) : \A d \in Directions : \A edge \in {-1, 0, 1} :
        LET np == c[1] + direction_offset(d).dp
            nq == c[2] + direction_offset(d).dq
            nr == -np - nq
        IN  labs(np) + labs(nq) + labs(nr) >= 2 * R => Assigns(np, nq, nr, edge)

\* C24: whenever the boundary branch is entered one of the six tests of the
\* cascade holds, so reflection is assigned before the switch reads it: for
\* every cell of the hexagon and every direction, and in every iteration of
\* a run in which an IP leaves the hexagon.
C24_AxisAssigned ==
    /\ CascadeAssigns
    /\ Crossed =>
          LET np == last.mid.IP.p + direction_offset(last.mid.IP.direction).dp
              nq == last.mid.IP.q + direction_offset(last.mid.IP.direction).dq
          IN  Assigns(np, nq, -np - nq, EdgeOf(last.mid.m.memory, last.mid.MP))

\* an IP left the hexagon where no tentative coordinate is zero, and the last
\* test of the cascade, np * nq > 0, was the one that held
C24_Witness ==
    /\ Crossed
    /\ program_rings >= 2
    /\ LET np == last.mid.IP.p + direction_offset(last.mid.IP.direction).dp
           nq == last.mid.IP.q + direction_offset(last.mid.IP.direction).dq
       IN  /\ np # 0 /\ nq # 0 /\ np + nq # 0
           /\ nq * (-np - nq) <= 0
           /\ (-np - nq) * np <= 0
           /\ np * nq > 0
           /\ <<IPs[last.ip].p, IPs[last.ip].q>> = <<-last.mid.IP.q, -last.mid.IP.p>>

\* ------------------------------------------------------------------ C25
\* the ring number of the hex at axial p, q
Ring(p, q) == Norm(p, q) \div 2

\* a buffer of r rings with nothing written
BufferOf(r) == [memory |-> [i \in 0..(HexSize(r) - 1) |-> ZeroCell], rings |-> r, gen |-> 0]

Hexes == (-(MaxRings - 1)..(MaxRings - 1)) \X (-(MaxRings - 1)..(MaxRings - 1))

\* get_memory_cell on a buffer of any size for a hex of any ring: the index
\* returned lies within the buffer left behind, which has 1 + the hex's ring
\* number of rings unless it had more already, was grown a ring at a time,
\* and holds exactly H(rings) cells
CellFits ==
    \A r \in 1..MaxRings : \A h \in Hexes :
        \A c \in {get_memory_cell(h[1], h[2], BufferOf(r))} :
            /\ c.index \in 0..(HexSize(c.m.rings) - 1)
            /\ c.m.rings = (IF Ring(h[1], h[2]) + 1 > r THEN Ring(h[1], h[2]) + 1 ELSE r)
            /\ c.m.gen = c.m.rings - r
            /\ DOMAIN c.m.memory = 0..(HexSize(c.m.rings) - 1)

\* the hexes an iteration can reach for: the one the memory pointer designates
\* before and after dispatch, and those of its two neighbours
HexesInReach ==
    { <<ptr.p, ptr.q>> : ptr \in {last.pre.MP, last.mid.MP,
                                   Move(version, last.pre.MP, LEFT),
                                   Move(version, last.pre.MP, RIGHT)} }

\* C25: memory_rings is at least 1 and never decreases; the buffer holds
\* exactly H(memory_rings) cells; every index get_memory_cell returns is
\* smaller than H(memory_rings); and memory_rings is 1 plus the largest ring
\* number of a hex accessed: an access grows memory a ring at a time to just
\* 1 + the ring of its hex, an iteration that grows memory has reached for a
\* hex of ring memory_rings - 1, and every hex that was stored to lies within
\* memory_rings - 1 rings.
C25_Capacity ==
    /\ CellFits
    /\ memory_rings >= 1
    /\ DOMAIN memory = 0..(HexSize(memory_rings) - 1)
    /\ last.kind \in {"exec", "skip"} =>
          /\ memory_rings >= last.pre.memory_rings
          /\ last.mid.m.rings >= last.pre.memory_rings
          /\ Completed => memory_rings >= last.mid.m.rings
          /\ DOMAIN last.mid.m.memory = 0..(HexSize(last.mid.m.rings) - 1)
          /\ memory_rings > last.pre.memory_rings =>
                \E h \in HexesInReach : Ring(h[1], h[2]) = memory_rings - 1
    /\ Dispatched(Letters) /\ Completed => Ring(MP.p, MP.q) <= memory_rings - 1
    /\ \A slot \in DOMAIN written : Ring(slot[1], slot[2]) <= memory_rings - 1

\* memory has grown by two rings in one iteration, for a hex of ring 2
C25_Witness ==
    /\ Completed
    /\ memory_rings = last.pre.memory_rings + 2
    /\ memory_rings = 3
    /\ \E h \in HexesInReach : Ring(h[1], h[2]) = 2

\* ------------------------------------------------------------------ C26
\* a buffer of r rings in which every edge holds a value of its own, none 0
Marked(r) == [i \in 0..(HexSize(r) - 1) |-> [a \in Axes |-> 3 * i + a + 1]]

\* realloc_memory keeps every cell the buffer held and zeroes the cells it adds
GrowthKeeps ==
    \A r \in 1..MaxRings :
        \A grown \in {realloc_memory(Marked(r), r, r + 1)} :
            /\ DOMAIN grown = 0..(HexSize(r + 1) - 1)
            /\ \A i \in DOMAIN grown :
                  grown[i] = IF i < HexSize(r) THEN Marked(r)[i] ELSE ZeroCell

\* the edge the last iteration may have stored to: the current edge, when the
\* instruction dispatched is one that stores
StoredTo(i, a) ==
    /\ last.kind = "exec"
    /\ last.op \in Stores
    /\ i = axial_to_mem_index(last.pre.MP.p, last.pre.MP.q)
    /\ a = last.pre.MP.axis

\* C26: growth of memory leaves every edge already allocated as it was and
\* makes the three edges of every new cell 0; so memory starts all 0, and an
\* iteration, whether or not it grows memory, leaves every edge it does not
\* store to with the value it had, an edge of a cell allocated on the way
\* holding 0: an edge no instruction has stored to reads 0 whenever its cell
\* was allocated.
C26_GrowthKeepsEdges ==
    /\ GrowthKeeps
    /\ ticks = 0 => \A i \in DOMAIN memory : memory[i] = ZeroCell
    /\ last.kind \in {"exec", "skip"} =>
          /\ DOMAIN last.pre.memory \subseteq DOMAIN memory
          /\ \A i \in DOMAIN memory : \A a \in Axes :
                ~StoredTo(i, a) =>
                    memory[i][a] = (IF i \in DOMAIN last.pre.memory
                                    THEN last.pre.memory[i][a] ELSE 0)

\* memory grew in an iteration while an edge held a value, and the edge kept
\* it and the cells added hold 0
C26_Witness ==
    /\ Completed
    /\ memory_rings > last.pre.memory_rings
    /\ \E i \in DOMAIN last.pre.memory : \E a \in Axes :
          /\ last.pre.memory[i][a] # 0
          /\ memory[i][a] = last.pre.memory[i][a]
    /\ \A i \in DOMAIN memory \ DOMAIN last.pre.memory : memory[i] = ZeroCell

\* ------------------------------------------------ the two index functions
\* axial_to_index and axial_to_mem_index applied to a pair of hexes, for a
\* program of any size: the arguments are drawn from every pair of axial
\* coordinates within MaxRings - 1 of the origin on both axes, which holds the
\* whole of the largest hexagon and hexes outside every one
GridInit ==
    /\ pc = "grid"
    /\ version = "new"
    /\ \E a \in Hexes : \E b \in Hexes : \E R \in 1..MaxRings :
          last = [kind |-> "grid", a |-> a, b |-> b, rings |-> R, ia |-> -2, ib |-> -2]
    /\ MP = InitialMP(version)
    /\ source = <<>>
    /\ stdin = <<>>
    /\ stdout = <<>>
    /\ program_rings = 1
    /\ program = [i \in 0..0 |-> [value |-> ".", debug |-> FALSE]]
    /\ loader = [debug_next |-> FALSE, i |-> 1, read |-> <<>>]
    /\ IPs = InitialIPs(1)
    /\ IP_index = 0
    /\ memory = [i \in 0..0 |-> ZeroCell]
    /\ memory_rings = 1
    /\ force_debug = FALSE
    /\ instruction = -1
    /\ exit_status = "running"
    /\ ticks = 0
    /\ written = <<>>

\* axial_to_index(p, q, rings) for both hexes
GridIndex ==
    /\ pc = "grid"
    /\ pc' = "index"
    /\ last' = [last EXCEPT !.ia = axial_to_index(last.a[1], last.a[2], last.rings),
                            !.ib = axial_to_index(last.b[1], last.b[2], last.rings)]
    /\ UNCHANGED <<version, source, program_rings, program, loader, IPs, IP_index,
                   memory, memory_rings, MP, force_debug, instruction, stdin, stdout,
                   exit_status, ticks, written>>

\* axial_to_mem_index(p, q) for both hexes
GridMemIndex ==
    /\ pc = "grid"
    /\ pc' = "mem_index"
    /\ last' = [last EXCEPT !.ia = axial_to_mem_index(last.a[1], last.a[2]),
                            !.ib = axial_to_mem_index(last.b[1], last.b[2])]
    /\ UNCHANGED <<version, source, program_rings, program, loader, IPs, IP_index,
                   memory, memory_rings, MP, force_debug, instruction, stdin, stdout,
                   exit_status, ticks, written>>

GridNext == GridIndex \/ GridMemIndex

GridSpec == GridInit /\ [][GridNext]_vars

\* ------------------------------------------------------------------ C27
\* both hexes lie in the hexagon of the program
BothInGrid ==
    /\ Norm(last.a[1], last.a[2]) <= 2 * (last.rings - 1)
    /\ Norm(last.b[1], last.b[2]) <= 2 * (last.rings - 1)

\* the row of a hex: its z coordinate
RowOf(h) == -h[1] - h[2]

\* C27 as stated: the index runs over the rows of constant z from z = R - 1
\* down to z = -(R - 1), and within a row the cell with the larger p has the
\* larger index.
C27_RowMajorByP ==
    (pc = "index" /\ BothInGrid) =>
        /\ RowOf(last.a) > RowOf(last.b) => last.ia < last.ib
        /\ (RowOf(last.a) = RowOf(last.b) /\ last.a[1] > last.b[1]) => last.ia > last.ib

\* C27, amended: the index runs over the rows of constant z from z = R - 1
\* down to z = -(R - 1), the first cell of the first row having index 0, and
\* within a row in order of increasing q, which is decreasing p: of two cells
\* of a row the one with the larger q, the smaller p, has the index that is
\* larger, by the difference of their q.
C27_RowMajorByQ ==
    (pc = "index" /\ BothInGrid) =>
        /\ RowOf(last.a) > RowOf(last.b) => last.ia < last.ib
        /\ RowOf(last.a) = RowOf(last.b) =>
              /\ last.ia - last.ib = last.a[2] - last.b[2]
              /\ last.a[1] > last.b[1] => last.ia < last.ib
        /\ last.a = <<0, -(last.rings - 1)>> => last.ia = 0

\* two cells of one row of a program of three rings, two apart
C27_Witness ==
    /\ pc = "index"
    /\ BothInGrid
    /\ last.rings = 3
    /\ last.a = <<1, -2>>
    /\ last.b = <<-1, 0>>
    /\ last.ia = 3
    /\ last.ib = 5

\* ------------------------------------------------------------------ C28
\* the hexes of ring k
RingHexes(k) == {h \in Hexes : Ring(h[1], h[2]) = k}

\* every ring that Hexes holds whole has 6k hexes, and they are mapped onto
\* the indices H(k) .. H(k + 1) - 1
RingsCovered ==
    \A k \in 1..(MaxRings - 1) :
        /\ Cardinality(RingHexes(k)) = 6 * k
        /\ {axial_to_mem_index(h[1], h[2]) : h \in RingHexes(k)}
               = HexSize(k)..(HexSize(k + 1) - 1)

\* C28: axial_to_mem_index is one-to-one from the hexes onto the naturals: the
\* origin has index 0 and no sextant test holds for it; for a hex of ring
\* k >= 1 exactly one of the six sextant tests holds and the index lies in
\* H(k) .. H(k + 1) - 1; two hexes with the same index are the same hex; and
\* the 6k hexes of ring k take every index of H(k) .. H(k + 1) - 1.
C28_MemIndexBijection ==
    /\ RingsCovered
    /\ pc = "mem_index" =>
          /\ last.ia \in Nat
          /\ last.a = <<0, 0>> => (last.ia = 0 /\ SextantTests(0, 0) = {})
          /\ last.a # <<0, 0>> =>
                /\ Cardinality(SextantTests(last.a[1], last.a[2])) = 1
                /\ last.ia >= HexSize(Ring(last.a[1], last.a[2]))
                /\ last.ia <= HexSize(Ring(last.a[1], last.a[2]) + 1) - 1
          /\ last.ia = last.ib => last.a = last.b

\* two hexes of ring 2 got the first and the last index of the ring
C28_Witness ==
    /\ pc = "mem_index"
    /\ Ring(last.a[1], last.a[2]) = 2
    /\ Ring(last.b[1], last.b[2]) = 2
    /\ last.ia = HexSize(2)
    /\ last.ib = HexSize(3) - 1
    /\ last.a = <<0, -2>>

\* ------------------------------------------------------------------ C29
\* the hex lies in the hexagon of a program of R rings
InGrid(h, R) == Norm(h[1], h[2]) <= 2 * (R - 1)

\* C29: for every hex and every R >= 1, axial_to_index gives an index in
\* 0 .. H(R) - 1 if and only if |p| + |q| + |p + q| <= 2 (R - 1); for a hex
\* outside the hexagon it gives -1; and two hexes inside the hexagon with the
\* same index are the same hex.
C29_IndexRange ==
    pc = "index" =>
        /\ last.ia \in 0..(HexSize(last.rings) - 1) <=> InGrid(last.a, last.rings)
        /\ last.ib \in 0..(HexSize(last.rings) - 1) <=> InGrid(last.b, last.rings)
        /\ ~InGrid(last.a, last.rings) => last.ia = -1
        /\ ~InGrid(last.b, last.rings) => last.ib = -1
        /\ (InGrid(last.a, last.rings) /\ InGrid(last.b, last.rings) /\ last.ia = last.ib)
               => last.a = last.b

\* a hex just outside a program of two rings got -1 and the last cell of the
\* program got the last index
C29_Witness ==
    /\ pc = "index"
    /\ last.rings = 2
    /\ last.a = <<2, -1>>
    /\ last.ia = -1
    /\ last.b = <<0, 1>>
    /\ last.ib = HexSize(2) - 1

\* ------------------------------------------------------------------ C30
\* the storage slot of a reference: the index of its cell and its axis
SlotOf(ref) == <<ref.index, ref.axis>>

\* the slot get_neighbor gives for the neighbour of ptr on a side, and the
\* slot get_memory_edge gives for the current edge of ptr
NeighborSlot(ptr, side) == SlotOf(Neighbor(version, ptr, side, BufferOf(1)))
CurrentSlot(ptr) == SlotOf(get_memory_edge(ptr, BufferOf(1)))

\* C30: for every memory pointer and either side, the slot get_neighbor
\* returns for that side is the slot get_memory_edge returns once move_mp has
\* moved the pointer to that side: after a first move from any pointer, and
\* for a further move from every pointer a walk arrives at.
C30_NeighborIsMoveTarget ==
    /\ Walked(<<LEFT>>) => CurrentSlot(MP) = NeighborSlot(last.start, LEFT)
    /\ Walked(<<RIGHT>>) => CurrentSlot(MP) = NeighborSlot(last.start, RIGHT)
    /\ pc = "walk" =>
          \A side \in {LEFT, RIGHT} :
              CurrentSlot(Move(version, MP, side)) = NeighborSlot(MP, side)

\* a pointer facing outwards moved left into the next hex, to the slot that
\* get_neighbor gave for its left neighbour
C30_Witness ==
    /\ Walked(<<LEFT>>)
    /\ last.start = [p |-> 1, q |-> -1, axis |-> X, direction |-> "OUT"]
    /\ <<MP.p, MP.q>> # <<last.start.p, last.start.q>>
    /\ CurrentSlot(MP) = NeighborSlot(last.start, LEFT)
    /\ CurrentSlot(MP) # CurrentSlot(last.start)

\* ------------------------------------------------------------------ C31
\* the pointer has made one move, to a side
MovedOnce == Walked(<<LEFT>>) \/ Walked(<<RIGHT>>)

\* the slots of the two neighbours of ptr
NeighborSlots(ptr) == {NeighborSlot(ptr, LEFT), NeighborSlot(ptr, RIGHT)}

\* C31 as stated: the edge neighbor(MP, side) designates is, once the pointer
\* has moved to that side, one of the neighbours of the moved pointer.
C31_NeighborStaysNeighbor ==
    MovedOnce => NeighborSlot(last.start, last.moves[1]) \in NeighborSlots(MP)

\* C31, amended: the edge neighbor(MP, side) designates is, once the pointer
\* has moved to that side, the current edge of the moved pointer and neither
\* of its neighbours; the edge that becomes a neighbour is the one the
\* pointer left: it is the neighbour on the other side of the moved pointer
\* turned round.
C31_LeftEdgeIsNeighbor ==
    /\ MovedOnce =>
          /\ NeighborSlot(last.start, last.moves[1]) = CurrentSlot(MP)
          /\ NeighborSlot(last.start, last.moves[1]) \notin NeighborSlots(MP)
          /\ CurrentSlot(last.start) = NeighborSlot(Reverse(MP), -last.moves[1])
    /\ pc = "walk" =>
          \A side \in {LEFT, RIGHT} :
              /\ NeighborSlot(MP, side) \notin NeighborSlots(Move(version, MP, side))
              /\ CurrentSlot(MP) = NeighborSlot(Reverse(Move(version, MP, side)), -side)

\* a pointer facing inwards moved right: the edge it left is the left
\* neighbour of the moved pointer turned round
C31_Witness ==
    /\ Walked(<<RIGHT>>)
    /\ last.start = [p |-> 0, q |-> 1, axis |-> Y, direction |-> "IN"]
    /\ CurrentSlot(MP) = NeighborSlot(last.start, RIGHT)
    /\ CurrentSlot(last.start) = NeighborSlot(Reverse(MP), LEFT)
    /\ CurrentSlot(last.start) \notin NeighborSlots(MP)

\* ------------------------------------------- the pointer instructions
\* { } " ' dispatched one after another from any memory pointer, as many as
\* MaxPair of them
MaxPair == 2

PairInit ==
    /\ pc = "pair"
    /\ version \in Versions
    /\ MP \in Pointers
    /\ last = [kind |-> "pair", start |-> MP, ops |-> <<>>]
    /\ source = <<>>
    /\ stdin = <<>>
    /\ stdout = <<>>
    /\ program_rings = 1
    /\ program = [i \in 0..0 |-> [value |-> ".", debug |-> FALSE]]
    /\ loader = [debug_next |-> FALSE, i |-> 1, read |-> <<>>]
    /\ IPs = InitialIPs(1)
    /\ IP_index = 0
    /\ memory = [i \in 0..0 |-> ZeroCell]
    /\ memory_rings = 1
    /\ force_debug = FALSE
    /\ instruction = -1
    /\ exit_status = "running"
    /\ ticks = 0
    /\ written = <<>>

\* the switch case of instruction c, run on the pointer
PairStep(c) ==
    /\ pc = "pair"
    /\ Len(last.ops) < MaxPair
    /\ \E t \in Dispatch(version, c, Begin) :
          /\ MP' = t.MP
          /\ last' = [last EXCEPT !.ops = Append(@, c)]
    /\ UNCHANGED <<version, source, program_rings, program, loader, IPs, IP_index,
                   memory, memory_rings, force_debug, instruction, stdin, stdout,
                   pc, exit_status, ticks, written>>

\* case '{'
PairLeft == PairStep("{")

\* case '}'
PairRight == PairStep("}")

\* case '"'
PairBackLeft == PairStep("\"")

\* case '\''
PairBackRight == PairStep("'")

PairNext == PairLeft \/ PairRight \/ PairBackLeft \/ PairBackRight

PairSpec == PairInit /\ [][PairNext]_vars

\* ------------------------------------------------------------------ C32
\* the instructions dispatched so far are exactly these
Ran(ops) == pc = "pair" /\ last.ops = ops

\* C32: from every memory pointer, { followed by " and " followed by {, and
\* } followed by ' and ' followed by }, give back the pointer (p, q, axis and
\* orientation), while each of the four alone takes it to another edge.
C32_BackInverts ==
    /\ (Ran(<<"{", "\"">>) \/ Ran(<<"\"", "{">>)) => MP = last.start
    /\ (Ran(<<"}", "'">>) \/ Ran(<<"'", "}">>)) => MP = last.start
    /\ (pc = "pair" /\ Len(last.ops) = 1) =>
          <<MP.p, MP.q, MP.axis>> # <<last.start.p, last.start.q, last.start.axis>>

\* a pointer facing outwards went to its right neighbour in the next hex and
\* ' brought it back
C32_Witness ==
    /\ Ran(<<"}", "'">>)
    /\ last.start = [p |-> -1, q |-> 1, axis |-> Z, direction |-> "OUT"]
    /\ MP = last.start

\* ------------------------------------------------------------------ C33
\* (p, q) is the corner of a program of R rings that lies in direction d, so
\* that a step in direction d walks off it outwards
AtCornerOutward(p, q, d, R) ==
    /\ p = (R - 1) * direction_offset(d).dp
    /\ q = (R - 1) * direction_offset(d).dq

\* the cells the boundary branch can put an IP on that steps from (p, q) in
\* direction d when the current edge holds edge
Lands(p, q, d, edge) ==
    LET np == p + direction_offset(d).dp
        nq == q + direction_offset(d).dq
    IN  { <<Reflected(axis, p, q, np, nq).p, Reflected(axis, p, q, np, nq).q>>
          : axis \in ReflectionAxes(np, nq, -np - nq, edge) }

\* the step from (p, q) in direction d leaves a program of R rings
Leaves(p, q, d, R) ==
    Norm(p + direction_offset(d).dp, q + direction_offset(d).dq) >= 2 * R

\* for every crossing of programs of from..MaxRings rings: a positive and a
\* non-positive current edge give different cells exactly at a corner left
\* outwards, and edges of the same sign class give the same cell everywhere
EdgeDecidesAtCorners(from) ==
    \A R \in from..MaxRings : \A c \in Cells(R) : \A d \in Directions :
        Leaves(c[1], c[2], d, R) =>
            /\ Lands(c[1], c[2], d, 1) # Lands(c[1], c[2], d, 0)
                   <=> AtCornerOutward(c[1], c[2], d, R)
            /\ Lands(c[1], c[2], d, 0) = Lands(c[1], c[2], d, -1)
            /\ Lands(c[1], c[2], d, 1) = Lands(c[1], c[2], d, INT_MAX)

EdgeDecidesFromOne == EdgeDecidesAtCorners(1)
EdgeDecidesFromTwo == EdgeDecidesAtCorners(2)

\* where the advance step of the last iteration puts the IP from the state s
Destinations(s) == { <<u.IP.p, u.IP.q>> : u \in Advance(program_rings, s) }

\* the state dispatch left, with the current edge given a value of the other
\* sign class and every other edge as it is
OtherSign(s) == SetEdge(s, IF EdgeValue(s) > 0 THEN 0 ELSE 1)

\* the state dispatch left, with the current edge as it is and every other
\* edge changed
OtherMemory(s) ==
    Bind(EdgeRef(s), LAMBDA r :
        [s EXCEPT !.m = [r.m EXCEPT !.memory =
            [i \in DOMAIN r.m.memory |->
                [a \in Axes |-> IF i = r.index /\ a = r.axis
                                THEN r.m.memory[i][a]
                                ELSE 1 - r.m.memory[i][a]]]]])

\* the IP of the last iteration left the hexagon from a corner, outwards
CrossedAtCorner ==
    /\ Crossed
    /\ AtCornerOutward(last.mid.IP.p, last.mid.IP.q, last.mid.IP.direction, program_rings)

\* C33 as stated: the cell a crossing leads to depends on the current edge
\* exactly when the IP leaves a corner outwards, the single cell of a program
\* of one ring being every corner; in every other crossing two memories give
\* the same cell.
C33_EdgeDecidesEveryCorner ==
    /\ EdgeDecidesFromOne
    /\ Crossed =>
          /\ Destinations(OtherSign(last.mid)) # Destinations(last.mid) <=> CrossedAtCorner
          /\ Destinations(OtherMemory(last.mid)) = Destinations(last.mid)

\* C33, amended: in a program of two rings or more the cell a crossing leads
\* to depends on the current edge, through its being positive or not, exactly
\* when the IP leaves a corner outwards; in every other crossing, and in
\* every crossing of a program of one ring, whose only cell the IP always
\* comes back to, two memories give the same cell; edges other than the
\* current one never matter.
C33_EdgeDecidesAtCorners ==
    /\ EdgeDecidesFromTwo
    /\ Crossed =>
          /\ Destinations(last.mid) = {<<IPs[last.ip].p, IPs[last.ip].q>>}
          /\ Destinations(OtherSign(last.mid)) # Destinations(last.mid)
                 <=> (CrossedAtCorner /\ program_rings >= 2)
          /\ Destinations(OtherMemory(last.mid)) = Destinations(last.mid)
          /\ program_rings = 1 => <<IPs[last.ip].p, IPs[last.ip].q>> = <<0, 0>>

\* an IP left a corner of a program of two rings outwards, and with a current
\* edge of the other sign class it would have been put on another cell
C33_Witness ==
    /\ CrossedAtCorner
    /\ program_rings = 2
    /\ Destinations(OtherSign(last.mid)) # {<<IPs[last.ip].p, IPs[last.ip].q>>}
    /\ Destinations(OtherMemory(last.mid)) = {<<IPs[last.ip].p, IPs[last.ip].q>>}

====
